---- MODULE Spec2Model ----
(***************************************************************************)
(* A model of HIVGISApp (src/igor.py): the Record Store built by           *)
(* load_dummy_data, the selection variables of the five notebook tabs, and *)
(* the handlers that filter, aggregate and export.                         *)
(*                                                                         *)
(* Conventions.                                                            *)
(*  - A datetime is an integer number of ticks: toordinal(date) *          *)
(*    TicksPerDay + the ticks elapsed since midnight.  Diagnosis dates and *)
(*    parsed date strings are at midnight; datetime.now() is any tick.     *)
(*  - A DataFrame is a sequence of rows (records), in row order.           *)
(*  - A float is an exact rational [num, den] in lowest terms, or one of   *)
(*    the IEEE specials "inf" / "nan" that pandas produces on x / 0.       *)
(*  - A text typed in an Entry is a sequence of one-character strings.     *)
(*  - Columns that no handler reads for its analysis (district, latitude,  *)
(*    longitude, contact, hours) and the matplotlib drawing calls are left *)
(*    out; what a view shows is kept as the data it was drawn from.        *)
(***************************************************************************)
EXTENDS Integers, Sequences, FiniteSets, TLC

\* ------------------------------------------------------------------ bounds
MaxRecords == 2        \* rows of hiv_data drawn in Init (num_records in the code is 5000)
MaxFacilities == 2     \* rows of health_facilities drawn in Init (100 in the code)
TicksPerDay == 2       \* resolution of the clock: ticks in one day
ZeroPopRegions == 2    \* regions whose population InitAnyProfile may set to 0
MaxPairs == 3          \* rows of hiv_data drawn in InitPartialProfiles
MaxWindows == 1        \* search results windows open at a time

\* ------------------------------------------------------- generic helpers
None == "None"

\* A frame or popup window nothing has been drawn in
EmptyFrame == [drawn |-> FALSE]

Range(s) == {s[i] : i \in DOMAIN s}

RECURSIVE GCD(_, _)
GCD(a, b) == IF b = 0 THEN a ELSE GCD(b, a % b)

\* s[lo] + ... + s[hi], by halves (a series can have 120 entries)
RECURSIVE SumRange(_, _, _)
SumRange(s, lo, hi) ==
    IF lo > hi THEN 0
    ELSE IF lo = hi THEN s[lo]
    ELSE SumRange(s, lo, (lo + hi) \div 2) + SumRange(s, (lo + hi) \div 2 + 1, hi)

SumSeq(s) == SumRange(s, 1, Len(s))

\* All sequences over S of length lo..hi
SeqsOf(S, lo, hi) == UNION {[1..n -> S] : n \in lo..hi}

\* The elements of a finite set of integers in ascending order
SortedSeq(S) ==
    [k \in 1..Cardinality(S) |-> CHOOSE x \in S : Cardinality({y \in S : y < x}) = k - 1]

\* Position of x in the sequence s (0 when absent): list.index
IndexOf(s, x) == IF \E i \in DOMAIN s : s[i] = x
                 THEN CHOOSE i \in DOMAIN s : s[i] = x /\ \A j \in 1..(i-1) : s[j] # x
                 ELSE 0

\* ------------------------------------------------------------- floats
\* A float64 is [num, den]: a rational in lowest terms (den > 0), or one of the
\* specials 1/0 (inf) and 0/0 (nan).
Rat(n, d) == [num |-> n \div GCD(n, d), den |-> d \div GCD(n, d)]

Inf == [num |-> 1, den |-> 0]
NaN == [num |-> 0, den |-> 0]

\* int / int in pandas and numpy: c / 0 is inf for c > 0 and nan for c = 0.
TrueDiv(c, p) == IF p = 0 THEN (IF c = 0 THEN NaN ELSE Inf) ELSE Rat(c, p)

IsNumber(x) == x.den # 0

\* x > y in place of x >= y
FloatGeMutStrict(x, y) ==
    IF x = NaN \/ y = NaN THEN FALSE
    ELSE IF x = Inf THEN y # Inf
    ELSE IF y = Inf THEN FALSE
    ELSE x.num * y.den > y.num * x.den

\* x >= y on floats: every comparison with nan is False, inf >= any number.
FloatGe(x, y) ==
    IF x = NaN \/ y = NaN THEN FALSE
    ELSE IF x = Inf THEN TRUE
    ELSE IF y = Inf THEN FALSE
    ELSE x.num * y.den >= y.num * x.den

\* x * k for an integer k > 0
FloatScale(x, k) == IF IsNumber(x) THEN Rat(x.num * k, x.den) ELSE x

\* Series.std() is the square root of the variance with ddof=1, which is nan
\* for a single value; the model keeps the variance.  xs is a sequence of ints.
SampleVariance(xs) ==
    LET n == Len(xs)
        sum == SumSeq(xs)
        sumsq == SumSeq([i \in DOMAIN xs |-> xs[i] * xs[i]])
    IN IF n = 1 THEN NaN ELSE Rat(n * sumsq - sum * sum, n * (n - 1))

\* Series.mean() of a non-empty sequence of ints
Mean(xs) == Rat(SumSeq(xs), Len(xs))

\* x >= 0 in place of x > 0
FloatPositiveMutNonNegative(x) ==
    IF x = NaN THEN FALSE ELSE IF x = Inf THEN TRUE ELSE x.num >= 0

\* x > 0 on floats
FloatPositive(x) == IF x = NaN THEN FALSE ELSE IF x = Inf THEN TRUE ELSE x.num > 0

\* (x - y) / y * 100 on floats that are numbers
PercentChange(x, y) ==
    IF y.num = 0 THEN (IF x.num = 0 THEN NaN ELSE Inf)
    ELSE Rat((x.num * y.den - y.num * x.den) * 100 * y.den, x.den * y.den * y.num)

\* ----------------------------------------------------------- calendar
\* datetime.date: proleptic Gregorian ordinal, as CPython's _ymd2ord.
IsLeap(y) == (y % 4 = 0) /\ ((y % 100 # 0) \/ (y % 400 = 0))

DaysInMonth(y, m) ==
    IF m = 2 THEN (IF IsLeap(y) THEN 29 ELSE 28)
    ELSE IF m \in {4, 6, 9, 11} THEN 30 ELSE 31

DaysBeforeYear(y) == (y-1)*365 + ((y-1) \div 4) - ((y-1) \div 100) + ((y-1) \div 400)

RECURSIVE DaysBeforeMonth(_, _)
DaysBeforeMonth(y, m) == IF m = 1 THEN 0 ELSE DaysBeforeMonth(y, m-1) + DaysInMonth(y, m-1)

toordinal(y, m, d) == DaysBeforeYear(y) + DaysBeforeMonth(y, m) + d

\* datetime(y, m, d): midnight of that day
datetime(y, m, d) == toordinal(y, m, d) * TicksPerDay

\* timedelta(days=n)
timedelta(n) == n * TicksPerDay

\* the years load_dummy_data draws diagnosis dates from (lines 50-51)
DataYears == 2015..2024

\* d.year and d.month of a datetime in DataYears
YearOf(t) ==
    CHOOSE y \in DataYears :
        /\ DaysBeforeYear(y) < t \div TicksPerDay
        /\ t \div TicksPerDay <= DaysBeforeYear(y + 1)

MonthOf(t) ==
    CHOOSE m \in 1..12 :
        /\ toordinal(YearOf(t), m, 1) <= t \div TicksPerDay
        /\ t \div TicksPerDay <= toordinal(YearOf(t), m, DaysInMonth(YearOf(t), m))

\* The calendar bucket of a datetime for a resampling frequency, numbered
\* consecutively: 'Y' years, 'Q' quarters, 'M' months.
Bucket(t, freq) ==
    IF freq = "Y" THEN YearOf(t)
    ELSE IF freq = "Q" THEN YearOf(t) * 4 + (MonthOf(t) - 1) \div 3
    ELSE YearOf(t) * 12 + (MonthOf(t) - 1)

\* The label pandas gives a bucket: the last day of the period, at midnight.
BucketLabel(b, freq) ==
    IF freq = "Y" THEN datetime(b, 12, 31)
    ELSE IF freq = "Q"
    THEN datetime(b \div 4, 3 * (b % 4) + 3, DaysInMonth(b \div 4, 3 * (b % 4) + 3))
    ELSE datetime(b \div 12, (b % 12) + 1, DaysInMonth(b \div 12, (b % 12) + 1))

\* ---------------------------------------------------------------- texts
\* A text is a sequence of one-character strings.
Digits == <<"0", "1", "2", "3", "4", "5", "6", "7", "8", "9">>

IsDigit(c) == \E i \in DOMAIN Digits : Digits[i] = c

\* int(c) for a digit c
DigitValue(c) == (CHOOSE i \in DOMAIN Digits : Digits[i] = c) - 1

\* int(f) for a text f of digits
RECURSIVE IntOf(_)
IntOf(f) == IF f = <<>> THEN 0
            ELSE 10 * IntOf(SubSeq(f, 1, Len(f) - 1)) + DigitValue(f[Len(f)])

\* sub in x, for two str
Contains(sub, x) ==
    \E i \in 0..(Len(x) - Len(sub)) : SubSeq(x, i + 1, i + Len(sub)) = sub

\* x.endswith(suffix)
EndsWith(x, suffix) ==
    Len(x) >= Len(suffix) /\ SubSeq(x, Len(x) - Len(suffix) + 1, Len(x)) = suffix

\* sep.join(parts)
RECURSIVE Join(_, _)
Join(sep, parts) ==
    IF parts = <<>> THEN <<>>
    ELSE IF Len(parts) = 1 THEN parts[1]
    ELSE parts[1] \o sep \o Join(sep, Tail(parts))

\* x.split(c) for a one-character separator c
RECURSIVE Split(_, _)
Split(x, c) ==
    IF \E i \in DOMAIN x : x[i] = c
    THEN LET i == CHOOSE i \in DOMAIN x : x[i] = c /\ \A j \in 1..(i-1) : x[j] # c
         IN <<SubSeq(x, 1, i - 1)>> \o Split(SubSeq(x, i + 1, Len(x)), c)
    ELSE <<x>>

\* datetime.strptime(x, "%Y-%m-%d").  _strptime matches the whole of x against
\* (?P<Y>\d\d\d\d)-(?P<m>1[0-2]|0[1-9]|[1-9])-(?P<d>3[01]|[12]\d|0[1-9]|[1-9]| [1-9])
\* and builds the date; a text that does not match, or names a day that does
\* not exist, raises ValueError.
MatchesY(f) == Len(f) = 4 /\ \A i \in 1..4 : IsDigit(f[i])

MatchesM(f) ==
    \/ Len(f) = 2 /\ f[1] = "1" /\ f[2] \in {"0", "1", "2"}
    \/ Len(f) = 2 /\ f[1] = "0" /\ IsDigit(f[2]) /\ f[2] # "0"
    \/ Len(f) = 1 /\ IsDigit(f[1]) /\ f[1] # "0"

MatchesD(f) ==
    \/ Len(f) = 2 /\ f[1] = "3" /\ f[2] \in {"0", "1"}
    \/ Len(f) = 2 /\ f[1] \in {"1", "2"} /\ IsDigit(f[2])
    \/ Len(f) = 2 /\ f[1] \in {"0", " "} /\ IsDigit(f[2]) /\ f[2] # "0"
    \/ Len(f) = 1 /\ IsDigit(f[1]) /\ f[1] # "0"

\* the digits of a day field (the regex admits a leading blank)
DayDigits(f) == IF f[1] = " " THEN Tail(f) ELSE f

\* TRUE when strptime(x, "%Y-%m-%d") raises ValueError
strptime_raises(x) ==
    LET fields == Split(x, "-")
    IN \/ Len(fields) # 3
       \/ ~MatchesY(fields[1]) \/ ~MatchesM(fields[2]) \/ ~MatchesD(fields[3])
       \/ IntOf(fields[1]) < 1
       \/ IntOf(DayDigits(fields[3])) > DaysInMonth(IntOf(fields[1]), IntOf(fields[2]))

\* the datetime strptime(x, "%Y-%m-%d") returns when it does not raise
strptime(x) ==
    LET fields == Split(x, "-")
    IN datetime(IntOf(fields[1]), IntOf(fields[2]), IntOf(DayDigits(fields[3])))

\* ---------------------------------------------------------- value_counts
\* Series.unique order: the keys in order of first appearance.
unique(s) ==
    LET firsts == {i \in DOMAIN s : \A j \in 1..(i-1) : s[j] # s[i]}
    IN [k \in 1..Cardinality(firsts) |->
            s[CHOOSE i \in firsts : Cardinality({j \in firsts : j <= i}) = k]]

\* Rows equal to k, counted with multiplicity.
CountOf(s, k) == Cardinality({i \in DOMAIN s : s[i] = k})

\* sort_values(ascending=False) on a count column: descending, rows with equal
\* counts keep their order (pandas reverses, sorts stably, reverses).
SortByCountDesc(rows) ==
    LET F[i \in 0..Len(rows)] ==
            IF i = 0 THEN <<>>
            ELSE LET x == rows[i]
                     k == Cardinality({j \in DOMAIN F[i-1] : F[i-1][j].count >= x.count})
                 IN SubSeq(F[i-1], 1, k) \o <<x>> \o SubSeq(F[i-1], k+1, Len(F[i-1]))
    IN F[Len(rows)]

\* Series.value_counts(): one row per value present, most frequent first.
CountsMutDistinct(col) ==
    SortByCountDesc([i \in 1..Len(unique(col)) |-> [key |-> unique(col)[i], count |-> 1]])

value_counts(col) ==
    CHOOSE counts \in
        {SortByCountDesc([i \in DOMAIN keys |-> [key |-> keys[i], count |-> CountOf(col, keys[i])]]) :
            keys \in {unique(col)}} : TRUE

\* Series.idxmax(): the label of the first row holding the maximum.
idxmax(counts) ==
    LET best == CHOOSE i \in DOMAIN counts :
                    /\ \A j \in DOMAIN counts : counts[j].count <= counts[i].count
                    /\ \A j \in 1..(i-1) : counts[j].count < counts[i].count
    IN counts[best].key

Column(df, name) == [i \in DOMAIN df |-> df[i][name]]

\* ------------------------------------------------------------ Record Store
regions == << "Erongo", "Hardap", "Karas", "Kavango East", "Kavango West",
              "Khomas", "Kunene", "Ohangwena", "Omaheke", "Omusati",
              "Oshana", "Oshikoto", "Otjozondjupa", "Zambezi" >>

age_groups == << "0-14", "15-24", "25-34", "35-44", "45-54", "55+" >>

population == << 150000, 87000, 85000, 148000, 89000,
                 415000, 96000, 245000, 74000, 243000,
                 176000, 181000, 154000, 98000 >>

area_sqkm == << 63579, 109651, 161235, 25576, 23166,
                36964, 115293, 10706, 84612, 26573,
                8653, 38653, 105185, 14785 >>

\* self.population_data, with the density column added at line 83
PopulationData(pop) ==
    [i \in DOMAIN regions |->
        [region |-> regions[i], population |-> pop[i], area_sqkm |-> area_sqkm[i],
         density |-> TrueDiv(pop[i], area_sqkm[i])]]

Case(r, g, a, date, s, t) ==
    [region |-> r, gender |-> g, age_group |-> a, diagnosis_date |-> date,
     diagnosis_status |-> s, on_treatment |-> t]

\* The evaluation times datetime.now() is drawn from: a midnight and a later
\* tick of the same day.
NowSample == {datetime(2020, 1, 1), datetime(2020, 1, 1) + 1}

\* Rows load_dummy_data can generate (dates in 2015-01-01 .. 2024-12-31), picked
\* on the edges of the date windows the handlers compute.
CaseUniverse ==
    { Case("Erongo", "Male",   "0-14",  datetime(2019, 1, 1),   "New", TRUE),
      Case("Hardap", "Female", "0-14",  datetime(2015, 1, 2),   "New", FALSE),
      Case("Erongo", "Female", "15-24", datetime(2017, 1, 1),   "Previously diagnosed", TRUE),
      Case("Hardap", "Male",   "15-24", datetime(2020, 1, 15),  "Previously diagnosed", TRUE),
      Case("Karas",  "Male",   "0-14",  datetime(2020, 3, 10),  "New", FALSE),
      Case("Hardap", "Female", "15-24", datetime(2015, 1, 1),   "New", TRUE),
      Case("Erongo", "Male",   "15-24", datetime(2024, 12, 31), "Previously diagnosed", FALSE) }

VARIABLES
    \* Record Store (load_dummy_data)
    hiv_data, population_data, health_facilities,
    \* the last reading of datetime.now()
    clock,
    \* HIV Case Distribution tab
    time_frame_var, age_group_var, gender_var, diagnosis_var,
    total_cases_var, filtered_cases_var, highest_region_var,
    hiv_map_frame,
    \* Regional Analysis tab
    regional_analysis_var, comparison_type_var, regional_time_var,
    regional_vis_frame, policy_date_var, impact_window,
    \* Population Density tab
    pop_display_var, population_map_frame, risk_threshold_var, risk_window,
    corr_result_var, corr_window,
    \* Health Facilities tab
    facilities_region_var, facility_type_var, services_vars, facilities_map_frame,
    facility_search_var, results_windows, facility_details_text,
    \* Temporal Trends tab
    trend_type_var, time_granularity_var, temporal_region_var,
    start_date_var, end_date_var, temporal_vis_frame, trend_stats_text,
    \* the last messagebox shown and the last file written by an export
    messagebox, export_file

store == <<hiv_data, population_data, health_facilities>>
hiv_sel == <<time_frame_var, age_group_var, gender_var, diagnosis_var>>
hiv_out == <<total_cases_var, filtered_cases_var, highest_region_var, hiv_map_frame>>
hiv_vars == <<hiv_sel, hiv_out>>

regional_sel == <<regional_analysis_var, comparison_type_var, regional_time_var>>
regional_vars == <<regional_sel, regional_vis_frame>>
policy_vars == <<policy_date_var, impact_window>>
risk_vars == <<risk_threshold_var, risk_window>>
corr_vars == <<corr_result_var, corr_window>>
population_vars == <<pop_display_var, population_map_frame, risk_vars, corr_vars>>
facilities_sel == <<facilities_region_var, facility_type_var, services_vars>>
search_vars == <<facility_search_var, results_windows, facility_details_text>>
facilities_vars == <<facilities_sel, facilities_map_frame, search_vars>>
temporal_sel == <<trend_type_var, time_granularity_var, temporal_region_var,
                  start_date_var, end_date_var>>
temporal_out == <<temporal_vis_frame, trend_stats_text>>
temporal_vars == <<temporal_sel, temporal_out>>
dialog_vars == <<messagebox, export_file>>

vars == <<store, clock, hiv_vars, regional_vars, policy_vars, population_vars,
          facilities_vars, temporal_vars, dialog_vars>>

\* -------------------------------------------------------------- dialogs
\* messagebox.showinfo / showwarning / showerror(title, message); detail is the
\* text interpolated into the message.
Dialog(kind, title, message, detail) ==
    [kind |-> kind, title |-> title, message |-> message, detail |-> detail]

\* no messagebox has been shown
NoDialog == Dialog("none", "", "", <<>>)

\* no file has been written
NoFile == [written |-> FALSE]

\* ------------------------------------------------- HIV Case Distribution
TimeFrameValues == {"All Time", "Last Year", "Last 5 Years", "Custom"}
AgeGroupChoices == {"All", "0-14", "15-24"}
GenderValues == {"All", "Male", "Female"}
DiagnosisValues == {"All", "New", "Previously diagnosed"}

\* HivFilter with the gender mask taken on the whole table instead of on the
\* rows kept so far (the earlier constraints are lost).
HivFilterMutGenderOnAll(data, tf, ag, g, d, now) ==
    LET f3 == IF g # "All" THEN SelectSeq(data, LAMBDA r : r.gender = g) ELSE data
        f4 == IF d # "All" THEN SelectSeq(f3, LAMBDA r : r.diagnosis_status = d) ELSE f3
    IN IF g # "All" THEN f4
       ELSE LET f1 == IF tf = "Last Year"
                      THEN SelectSeq(data, LAMBDA r : r.diagnosis_date >= now - timedelta(365))
                      ELSE IF tf = "Last 5 Years"
                      THEN SelectSeq(data, LAMBDA r : r.diagnosis_date >= now - timedelta(5*365))
                      ELSE data
                f2 == IF ag # "All" THEN SelectSeq(f1, LAMBDA r : r.age_group = ag) ELSE f1
            IN IF d # "All" THEN SelectSeq(f2, LAMBDA r : r.diagnosis_status = d) ELSE f2

\* HivFilter with an off-by-one slice: the first row kept by the gender mask is
\* dropped.
HivFilterMutDropFirst(data, tf, ag, g, d, now) ==
    LET f1 == IF tf = "Last Year"
              THEN SelectSeq(data, LAMBDA r : r.diagnosis_date >= now - timedelta(365))
              ELSE IF tf = "Last 5 Years"
              THEN SelectSeq(data, LAMBDA r : r.diagnosis_date >= now - timedelta(5*365))
              ELSE data
        f2 == IF ag # "All" THEN SelectSeq(f1, LAMBDA r : r.age_group = ag) ELSE f1
        m3 == IF g # "All" THEN SelectSeq(f2, LAMBDA r : r.gender = g) ELSE f2
        f3 == IF g # "All" /\ m3 # <<>> THEN Tail(m3) ELSE m3
        f4 == IF d # "All" THEN SelectSeq(f3, LAMBDA r : r.diagnosis_status = d) ELSE f3
    IN f4

\* update_hiv_map, lines 473-494 (export_filtered_data repeats them at 1445-1465)
HivFilter(data, tf, ag, g, d, now) ==
    LET f1 == IF tf = "Last Year"
              THEN SelectSeq(data, LAMBDA r : r.diagnosis_date >= now - timedelta(365))
              ELSE IF tf = "Last 5 Years"
              THEN SelectSeq(data, LAMBDA r : r.diagnosis_date >= now - timedelta(5*365))
              ELSE data
        f2 == IF ag # "All" THEN SelectSeq(f1, LAMBDA r : r.age_group = ag) ELSE f1
        f3 == IF g # "All" THEN SelectSeq(f2, LAMBDA r : r.gender = g) ELSE f2
        f4 == IF d # "All" THEN SelectSeq(f3, LAMBDA r : r.diagnosis_status = d) ELSE f3
    IN f4

\* lines 500-507
HighestRegion(filtered_data) ==
    IF filtered_data # <<>>
    THEN LET region_counts == value_counts(Column(filtered_data, "region"))
         IN [region |-> idxmax(region_counts),
             count |-> region_counts[1].count]
    ELSE "N/A"

\* datetime.now() is called only inside the "Last Year" / "Last N Years" branches
RelativePresets == {"Last Year", "Last 3 Years", "Last 5 Years"}

\* A reading of the wall clock: not before the previous one.  A handler that
\* does not call datetime.now() leaves the clock alone.
ReadClock(reads, now) ==
    /\ IF reads THEN now \in NowSample /\ now >= clock ELSE now = clock
    /\ clock' = now

\* update_hiv_map with the selections tf, ag, g, d, evaluated at now
update_hiv_map(tf, ag, g, d, now) ==
    LET filtered_data == HivFilter(hiv_data, tf, ag, g, d, now)
    IN /\ total_cases_var' = Len(hiv_data)
       /\ filtered_cases_var' = Len(filtered_data)
       /\ highest_region_var' = HighestRegion(filtered_data)
       /\ hiv_map_frame' = [drawn |-> TRUE,
                            filtered_data |-> filtered_data,
                            now |-> IF tf \in RelativePresets THEN now ELSE None]

\* <<ComboboxSelected>> bindings, lines 176, 184, 192, 200
SelectTimeFrame ==
    \E v \in TimeFrameValues, now \in NowSample :
        /\ ReadClock(v \in RelativePresets, now)
        /\ time_frame_var' = v
        /\ UNCHANGED <<age_group_var, gender_var, diagnosis_var>>
        /\ update_hiv_map(v, age_group_var, gender_var, diagnosis_var, now)
        /\ UNCHANGED <<store, regional_vars, policy_vars, population_vars,
                       facilities_vars, temporal_vars, dialog_vars>>

SelectAgeGroup ==
    \E v \in AgeGroupChoices, now \in NowSample :
        /\ ReadClock(time_frame_var \in RelativePresets, now)
        /\ age_group_var' = v
        /\ UNCHANGED <<time_frame_var, gender_var, diagnosis_var>>
        /\ update_hiv_map(time_frame_var, v, gender_var, diagnosis_var, now)
        /\ UNCHANGED <<store, regional_vars, policy_vars, population_vars,
                       facilities_vars, temporal_vars, dialog_vars>>

SelectGender ==
    \E v \in GenderValues, now \in NowSample :
        /\ ReadClock(time_frame_var \in RelativePresets, now)
        /\ gender_var' = v
        /\ UNCHANGED <<time_frame_var, age_group_var, diagnosis_var>>
        /\ update_hiv_map(time_frame_var, age_group_var, v, diagnosis_var, now)
        /\ UNCHANGED <<store, regional_vars, policy_vars, population_vars,
                       facilities_vars, temporal_vars, dialog_vars>>

SelectDiagnosis ==
    \E v \in DiagnosisValues, now \in NowSample :
        /\ ReadClock(time_frame_var \in RelativePresets, now)
        /\ diagnosis_var' = v
        /\ UNCHANGED <<time_frame_var, age_group_var, gender_var>>
        /\ update_hiv_map(time_frame_var, age_group_var, gender_var, v, now)
        /\ UNCHANGED <<store, regional_vars, policy_vars, population_vars,
                       facilities_vars, temporal_vars, dialog_vars>>

\* the "Update Map" button, line 203
UpdateHivMap ==
    \E now \in NowSample :
        /\ ReadClock(time_frame_var \in RelativePresets, now)
        /\ UNCHANGED hiv_sel
        /\ update_hiv_map(time_frame_var, age_group_var, gender_var, diagnosis_var, now)
        /\ UNCHANGED <<store, regional_vars, policy_vars, population_vars,
                       facilities_vars, temporal_vars, dialog_vars>>

\* ------------------------------------------------------ Regional Analysis
RegionChoices == {"All", "Erongo", "Hardap"}
ComparisonTypes == {"Cases by Region", "Cases per 100,000 Population",
                    "New Cases vs. Previously Diagnosed", "Gender Distribution",
                    "Age Group Distribution"}
RegionalTimeValues == {"All Time", "Last Year", "Last 3 Years", "Last 5 Years"}

\* RegionalFilter with the "Last 3 Years" window one year short (2*365 days).
RegionalFilterMutWindow(data, region, time, now) ==
    LET f1 == IF region # "All" THEN SelectSeq(data, LAMBDA r : r.region = region) ELSE data
        f2 == IF time = "Last Year"
              THEN SelectSeq(f1, LAMBDA r : r.diagnosis_date >= now - timedelta(365))
              ELSE IF time = "Last 3 Years"
              THEN SelectSeq(f1, LAMBDA r : r.diagnosis_date >= now - timedelta(2*365))
              ELSE IF time = "Last 5 Years"
              THEN SelectSeq(f1, LAMBDA r : r.diagnosis_date >= now - timedelta(5*365))
              ELSE f1
    IN f2

\* update_regional_analysis, lines 1022-1038 (export_filtered_data: 1499-1515)
RegionalFilter(data, region, time, now) ==
    LET f1 == IF region # "All" THEN SelectSeq(data, LAMBDA r : r.region = region) ELSE data
        f2 == IF time = "Last Year"
              THEN SelectSeq(f1, LAMBDA r : r.diagnosis_date >= now - timedelta(365))
              ELSE IF time = "Last 3 Years"
              THEN SelectSeq(f1, LAMBDA r : r.diagnosis_date >= now - timedelta(3*365))
              ELSE IF time = "Last 5 Years"
              THEN SelectSeq(f1, LAMBDA r : r.diagnosis_date >= now - timedelta(5*365))
              ELSE f1
    IN f2

\* Series.sort_index() on an age_group index: ascending label order, which for
\* these labels is their order in age_groups.
SortByAgeIndex(rows) ==
    LET F[i \in 0..Len(rows)] ==
            IF i = 0 THEN <<>>
            ELSE LET x == rows[i]
                     k == Cardinality({j \in DOMAIN F[i-1] :
                             IndexOf(age_groups, F[i-1][j].key) <= IndexOf(age_groups, x.key)})
                 IN SubSeq(F[i-1], 1, k) \o <<x>> \o SubSeq(F[i-1], k+1, Len(F[i-1]))
    IN F[Len(rows)]

\* MergeOnRegion as a left join: a region without a profile keeps its row, with
\* missing profile columns.
MergeOnRegionMutLeft(counts, profiles) ==
    LET has(i) == \E j \in DOMAIN profiles : profiles[j].region = counts[i].key
        hit(i) == CHOOSE j \in DOMAIN profiles : profiles[j].region = counts[i].key
    IN [i \in DOMAIN counts |->
            [region |-> counts[i].key, cases |-> counts[i].count,
             population |-> IF has(i) THEN profiles[hit(i)].population ELSE 0,
             area_sqkm |-> IF has(i) THEN profiles[hit(i)].area_sqkm ELSE 0,
             density |-> IF has(i) THEN profiles[hit(i)].density ELSE NaN]]

\* pd.merge(counts, population_data, on='region'): an inner join, in the order
\* of the rows of counts; a region without a row in counts has no row in it.
MergeOnRegion(counts, profiles) ==
    LET hit(i) == CHOOSE j \in DOMAIN profiles : profiles[j].region = counts[i].key
        kept == SelectSeq([i \in DOMAIN counts |-> i],
                          LAMBDA i : \E j \in DOMAIN profiles : profiles[j].region = counts[i].key)
    IN [n \in DOMAIN kept |->
            [region |-> counts[kept[n]].key, cases |-> counts[kept[n]].count,
             population |-> profiles[hit(kept[n])].population,
             area_sqkm |-> profiles[hit(kept[n])].area_sqkm,
             density |-> profiles[hit(kept[n])].density]]

\* sort_values(col, ascending=False) on a float column: descending, NaN last,
\* equal values in row order.
SortByFloatDesc(rows, col) ==
    LET ge(a, b) == IF b = NaN THEN TRUE ELSE FloatGe(a, b)
        F[i \in 0..Len(rows)] ==
            IF i = 0 THEN <<>>
            ELSE LET x == rows[i]
                     k == Cardinality({j \in DOMAIN F[i-1] : ge(F[i-1][j][col], x[col])})
                 IN SubSeq(F[i-1], 1, k) \o <<x>> \o SubSeq(F[i-1], k+1, Len(F[i-1]))
    IN F[Len(rows)]

\* CasesPer100k scaled per 1,000 instead of per 100,000.
CasesPer100kMutPerThousand(filtered_data, profiles) ==
    CHOOSE chart \in
        {SortByFloatDesc(
            [i \in DOMAIN merged_data |->
                [region |-> merged_data[i].region,
                 cases |-> merged_data[i].cases,
                 population |-> merged_data[i].population,
                 cases_per_100k |->
                    FloatScale(TrueDiv(merged_data[i].cases, merged_data[i].population),
                               1000)]],
            "cases_per_100k") :
         merged_data \in
            {MergeOnRegion(region_counts, profiles) :
                region_counts \in {value_counts(Column(filtered_data, "region"))}}} : TRUE

\* lines 1065-1078: one bar per row of the merge
CasesPer100k(filtered_data, profiles) ==
    CHOOSE chart \in
        {SortByFloatDesc(
            [i \in DOMAIN merged_data |->
                [region |-> merged_data[i].region,
                 cases |-> merged_data[i].cases,
                 population |-> merged_data[i].population,
                 cases_per_100k |->
                    FloatScale(TrueDiv(merged_data[i].cases, merged_data[i].population),
                               100000)]],
            "cases_per_100k") :
         merged_data \in
            {MergeOnRegion(region_counts, profiles) :
                region_counts \in {value_counts(Column(filtered_data, "region"))}}} : TRUE

\* lines 1046-1141: the rows charted for the comparison type (the pie and
\* age-group branches draw nothing on an empty table)
RegionalChart(filtered_data, comparison_type, profiles) ==
    IF comparison_type = "Cases by Region"
    THEN SortByCountDesc(value_counts(Column(filtered_data, "region")))
    ELSE IF comparison_type = "Cases per 100,000 Population"
    THEN CasesPer100k(filtered_data, profiles)
    ELSE IF filtered_data = <<>> THEN <<>>
    ELSE IF comparison_type = "New Cases vs. Previously Diagnosed"
    THEN value_counts(Column(filtered_data, "diagnosis_status"))
    ELSE IF comparison_type = "Gender Distribution"
    THEN value_counts(Column(filtered_data, "gender"))
    ELSE SortByAgeIndex(value_counts(Column(filtered_data, "age_group")))

\* update_regional_analysis with the selections region, comparison, time
update_regional_analysis(region, comparison, time, now) ==
    LET filtered_data == RegionalFilter(hiv_data, region, time, now)
    IN regional_vis_frame' =
            [drawn |-> TRUE,
             filtered_data |-> filtered_data,
             now |-> IF time \in RelativePresets THEN now ELSE None,
             comparison_type |-> comparison,
             chart |-> RegionalChart(filtered_data, comparison, population_data)]

\* <<ComboboxSelected>> bindings, lines 351, 365, 373
SelectRegionalRegion ==
    \E v \in RegionChoices, now \in NowSample :
        /\ ReadClock(regional_time_var \in RelativePresets, now)
        /\ regional_analysis_var' = v
        /\ UNCHANGED <<comparison_type_var, regional_time_var>>
        /\ update_regional_analysis(v, comparison_type_var, regional_time_var, now)
        /\ UNCHANGED <<store, hiv_vars, policy_vars, population_vars,
                       facilities_vars, temporal_vars, dialog_vars>>

SelectComparisonType ==
    \E v \in ComparisonTypes, now \in NowSample :
        /\ ReadClock(regional_time_var \in RelativePresets, now)
        /\ comparison_type_var' = v
        /\ UNCHANGED <<regional_analysis_var, regional_time_var>>
        /\ update_regional_analysis(regional_analysis_var, v, regional_time_var, now)
        /\ UNCHANGED <<store, hiv_vars, policy_vars, population_vars,
                       facilities_vars, temporal_vars, dialog_vars>>

SelectRegionalTime ==
    \E v \in RegionalTimeValues, now \in NowSample :
        /\ ReadClock(v \in RelativePresets, now)
        /\ regional_time_var' = v
        /\ UNCHANGED <<regional_analysis_var, comparison_type_var>>
        /\ update_regional_analysis(regional_analysis_var, comparison_type_var, v, now)
        /\ UNCHANGED <<store, hiv_vars, policy_vars, population_vars,
                       facilities_vars, temporal_vars, dialog_vars>>

\* the "Update Analysis" button (line 386) and View > Regional Analysis (1011-1014)
UpdateRegionalAnalysis ==
    \E now \in NowSample :
        /\ ReadClock(regional_time_var \in RelativePresets, now)
        /\ UNCHANGED regional_sel
        /\ update_regional_analysis(regional_analysis_var, comparison_type_var,
                                    regional_time_var, now)
        /\ UNCHANGED <<store, hiv_vars, policy_vars, population_vars,
                       facilities_vars, temporal_vars, dialog_vars>>

\* ----------------------------------------------------- Population Density
PopDisplayValues == {"Population Density", "Total Population", "HIV Prevalence Rate"}

\* The values the risk scale is released at (from_=0.001, to=0.05, default 0.01)
ThresholdChoices == {Rat(1, 1000), Rat(101, 100000), Rat(1, 100), Rat(5, 100)}

\* hiv_by_region.get(region, 0), line 664
CasesIn(counts, region) ==
    IF \E i \in DOMAIN counts : counts[i].key = region
    THEN counts[CHOOSE i \in DOMAIN counts : counts[i].key = region].count
    ELSE 0

ProfileOf(profiles, region) ==
    profiles[CHOOSE j \in DOMAIN profiles : profiles[j].region = region]

\* line 665
Prevalence(cases, pop) == IF pop > 0 THEN TrueDiv(cases, pop) ELSE Rat(0, 1)

\* update_population_map, lines 607-677: the value annotated on each region
update_population_map(display_type) ==
    LET hiv_by_region == value_counts(Column(hiv_data, "region"))
        value(region) ==
            IF display_type = "Population Density"
            THEN ProfileOf(population_data, region).density
            ELSE IF display_type = "Total Population"
            THEN Rat(ProfileOf(population_data, region).population, 1)
            ELSE Prevalence(CasesIn(hiv_by_region, region),
                            ProfileOf(population_data, region).population)
    IN population_map_frame' =
            [drawn |-> TRUE,
             display_type |-> display_type,
             annotated |-> [i \in DOMAIN regions |->
                              [region |-> regions[i], value |-> value(regions[i])]]]

\* <<ComboboxSelected>> binding, line 247, and View > Population Density (588-591)
SelectPopDisplay ==
    \E v \in PopDisplayValues :
        /\ pop_display_var' = v
        /\ update_population_map(v)
        /\ UNCHANGED <<risk_vars, corr_vars>>
        /\ UNCHANGED <<store, clock, hiv_vars, regional_vars, policy_vars,
                       facilities_vars, temporal_vars, dialog_vars>>

\* update_high_risk_areas counting the cases of the rows the HIV tab's
\* filters keep instead of all the rows of hiv_data.
update_high_risk_areasMutFiltered(threshold) ==
    \E hiv_counts \in {value_counts(Column(
                          HivFilter(hiv_data, time_frame_var, age_group_var, gender_var,
                                    diagnosis_var, clock), "region"))} :
    \E merged_data \in {MergeOnRegion(hiv_counts, population_data)} :
    \E rated \in {[i \in DOMAIN merged_data |->
                    [region |-> merged_data[i].region,
                     cases |-> merged_data[i].cases,
                     population |-> merged_data[i].population,
                     prevalence |-> TrueDiv(merged_data[i].cases, merged_data[i].population)]]} :
    \E high_risk \in {SelectSeq(rated, LAMBDA row : FloatGe(row.prevalence, threshold))} :
    \E sorted_data \in {SortByFloatDesc(rated, "prevalence")} :
       risk_window' =
            [drawn |-> TRUE,
             threshold |-> threshold,
             high_risk |-> {regions[i] : i \in {j \in DOMAIN regions :
                                \E k \in DOMAIN high_risk : high_risk[k].region = regions[j]}},
             sorted_data |-> sorted_data,
             canvas |-> \A i \in DOMAIN sorted_data : IsNumber(sorted_data[i].prevalence)]

\* update_high_risk_areas, lines 737-813.  set_ylim(0, max * 1.1) raises on a
\* non-finite maximum, before the canvas is created: the window stays empty.
\* Each local of the handler is bound to its value once.
update_high_risk_areas(threshold) ==
    \E hiv_counts \in {value_counts(Column(hiv_data, "region"))} :
    \E merged_data \in {MergeOnRegion(hiv_counts, population_data)} :
    \E rated \in {[i \in DOMAIN merged_data |->
                    [region |-> merged_data[i].region,
                     cases |-> merged_data[i].cases,
                     population |-> merged_data[i].population,
                     prevalence |-> TrueDiv(merged_data[i].cases, merged_data[i].population)]]} :
    \E high_risk \in {SelectSeq(rated, LAMBDA row : FloatGe(row.prevalence, threshold))} :
    \E sorted_data \in {SortByFloatDesc(rated, "prevalence")} :
       risk_window' =
            [drawn |-> TRUE,
             threshold |-> threshold,
             high_risk |-> {regions[i] : i \in {j \in DOMAIN regions :
                                \E k \in DOMAIN high_risk : high_risk[k].region = regions[j]}},
             sorted_data |-> sorted_data,
             canvas |-> \A i \in DOMAIN sorted_data : IsNumber(sorted_data[i].prevalence)]

\* the scale's <ButtonRelease-1>, line 266: the scale has written the value it
\* was dragged to into risk_threshold_var
ReleaseRiskScale ==
    \E t \in ThresholdChoices :
        /\ risk_threshold_var' = t
        /\ update_high_risk_areas(t)
        /\ UNCHANGED <<pop_display_var, population_map_frame, corr_vars>>
        /\ UNCHANGED <<store, clock, hiv_vars, regional_vars, policy_vars,
                       facilities_vars, temporal_vars, dialog_vars>>

\* the "Identify High-Risk Areas" button, line 270: risk_threshold_var.get()
IdentifyHighRisk ==
    /\ update_high_risk_areas(risk_threshold_var)
    /\ UNCHANGED <<risk_threshold_var, pop_display_var, population_map_frame, corr_vars>>
    /\ UNCHANGED <<store, clock, hiv_vars, regional_vars, policy_vars,
                   facilities_vars, temporal_vars, dialog_vars>>

\* Series.corr, line 701: Pearson's r of the paired columns.  The coefficient
\* is kept as the observations it is computed from; it is nan when there are
\* fewer than 2 pairs, when a value is not finite or when a column is constant.
PearsonR(rows) ==
    [n |-> Len(rows),
     observations |-> [i \in DOMAIN rows |->
                         [x |-> rows[i].density, y |-> rows[i].prevalence]],
     nan |-> \/ Len(rows) < 2
             \/ \E i \in DOMAIN rows : ~IsNumber(rows[i].prevalence)
             \/ \A i, j \in DOMAIN rows : rows[i].density = rows[j].density
             \/ \A i, j \in DOMAIN rows : rows[i].prevalence = rows[j].prevalence]

\* np.polyfit(x, y, 1), line 722: the least-squares line of the paired columns,
\* kept as the observations it is fitted to.  With fewer than 2 distinct x the
\* system is rank deficient: numpy warns and still returns coefficients.
Polyfit(rows) ==
    [n |-> Len(rows),
     observations |-> [i \in DOMAIN rows |->
                         [x |-> rows[i].density, y |-> rows[i].prevalence]],
     rank_deficient |-> \A i, j \in DOMAIN rows : rows[i].density = rows[j].density]

\* show_correlation_analysis, lines 690-733.  The least-squares solver on a
\* value that is not finite either raises (the window stays empty) or returns
\* nan coefficients.
show_correlation_analysis ==
    \E hiv_counts \in {value_counts(Column(hiv_data, "region"))} :
    \E merged \in {MergeOnRegion(hiv_counts, population_data)} :
    \E merged_data \in {[i \in DOMAIN merged |->
                    [region |-> merged[i].region,
                     density |-> merged[i].density,
                     prevalence |-> TrueDiv(merged[i].cases, merged[i].population)]]} :
    \E correlation \in {PearsonR(merged_data)} :
    \E fitted \in (IF \A i \in DOMAIN merged_data : IsNumber(merged_data[i].prevalence)
                   THEN {TRUE} ELSE BOOLEAN) :
        /\ corr_result_var' = [calculated |-> TRUE, correlation |-> correlation]
        /\ corr_window' =
            [drawn |-> TRUE,
             scatter |-> merged_data,
             trend_line |-> IF fitted THEN Polyfit(merged_data) ELSE None,
             canvas |-> fitted]

\* the "Analyze Correlation" button, line 253
AnalyzeCorrelation ==
    /\ show_correlation_analysis
    /\ UNCHANGED <<pop_display_var, population_map_frame, risk_vars>>
    /\ UNCHANGED <<store, clock, hiv_vars, regional_vars, policy_vars,
                   facilities_vars, temporal_vars, dialog_vars>>

\* ------------------------------------------------------ Health Facilities
\* the service tags, lines 86-89 and 301
services == << "HIV Testing", "HIV Treatment", "Counseling", "PrEP",
               "PMTCT", "Youth Services", "Support Groups" >>

\* the characters of a service tag
ServiceText(service) ==
    CASE service = "HIV Testing" -> <<"H", "I", "V", " ", "T", "e", "s", "t", "i", "n", "g">>
      [] service = "HIV Treatment" -> <<"H", "I", "V", " ", "T", "r", "e", "a", "t", "m", "e", "n", "t">>
      [] service = "Counseling" -> <<"C", "o", "u", "n", "s", "e", "l", "i", "n", "g">>
      [] service = "PrEP" -> <<"P", "r", "E", "P">>
      [] service = "PMTCT" -> <<"P", "M", "T", "C", "T">>
      [] service = "Youth Services" -> <<"Y", "o", "u", "t", "h", " ", "S", "e", "r", "v", "i", "c", "e", "s">>
      [] service = "Support Groups" -> <<"S", "u", "p", "p", "o", "r", "t", " ", "G", "r", "o", "u", "p", "s">>

\* the 'services' column of a facility offering the tags in offered: ', '.join
ServicesColumn(offered) ==
    Join(<<",", " ">>, [i \in DOMAIN offered |-> ServiceText(offered[i])])

Facility(n, r, t, offered) ==
    [name |-> n, region |-> r, facility_type |-> t, services |-> ServicesColumn(offered)]

\* Rows load_dummy_data can generate (2 to 5 distinct tags each)
FacilityUniverse ==
    { Facility("Facility_1", "Erongo", "Hospital", <<"HIV Testing", "Counseling">>),
      Facility("Facility_2", "Erongo", "Clinic",   <<"PrEP", "HIV Testing", "PMTCT">>),
      Facility("Facility_3", "Hardap", "Hospital", <<"HIV Treatment", "Counseling">>),
      Facility("Facility_4", "Hardap", "Clinic",   <<"PrEP", "Youth Services">>) }

FacilityRegionChoices == {"All", "Erongo"}
FacilityTypeChoices == {"All", "Hospital"}
\* the checkbuttons the model ticks
ServiceChoices == {"HIV Testing", "PrEP"}

\* [service for service, var in self.services_vars.items() if var.get()]
SelectedServices(vars_) == SelectSeq(services, LAMBDA service : vars_[service])

\* FacilityFilter keeping the facilities that offer all the selected tags.
FacilityFilterMutAll(data, region, type, selected_services) ==
    LET f1 == IF region # "All" THEN SelectSeq(data, LAMBDA f : f.region = region) ELSE data
        f2 == IF type # "All" THEN SelectSeq(f1, LAMBDA f : f.facility_type = type) ELSE f1
        f3 == IF selected_services # <<>>
              THEN SelectSeq(f2, LAMBDA f :
                        \A i \in DOMAIN selected_services :
                            Contains(ServiceText(selected_services[i]), f.services))
              ELSE f2
    IN f3

\* update_facilities_map, lines 836-852 (export_filtered_data: 1478-1494)
FacilityFilter(data, region, type, selected_services) ==
    LET f1 == IF region # "All" THEN SelectSeq(data, LAMBDA f : f.region = region) ELSE data
        f2 == IF type # "All" THEN SelectSeq(f1, LAMBDA f : f.facility_type = type) ELSE f1
        f3 == IF selected_services # <<>>
              THEN SelectSeq(f2, LAMBDA f :
                        \E i \in DOMAIN selected_services :
                            Contains(ServiceText(selected_services[i]), f.services))
              ELSE f2
    IN f3

\* update_facilities_map with the selections region, type, vars_: the rows
\* plotted (lines 863-880) and the filters named in the title (lines 883-892)
update_facilities_map(region, type, vars_) ==
    facilities_map_frame' =
        [drawn |-> TRUE,
         filtered_facilities |->
            FacilityFilter(health_facilities, region, type, SelectedServices(vars_)),
         region |-> region,
         facility_type |-> type,
         selected_services |-> SelectedServices(vars_)]

\* <<ComboboxSelected>> bindings, lines 290 and 298
SelectFacilitiesRegion ==
    \E v \in FacilityRegionChoices :
        /\ facilities_region_var' = v
        /\ UNCHANGED <<facility_type_var, services_vars>>
        /\ update_facilities_map(v, facility_type_var, services_vars)
        /\ UNCHANGED <<search_vars, store, clock, hiv_vars, regional_vars, policy_vars,
                       population_vars, temporal_vars, dialog_vars>>

SelectFacilityType ==
    \E v \in FacilityTypeChoices :
        /\ facility_type_var' = v
        /\ UNCHANGED <<facilities_region_var, services_vars>>
        /\ update_facilities_map(facilities_region_var, v, services_vars)
        /\ UNCHANGED <<search_vars, store, clock, hiv_vars, regional_vars, policy_vars,
                       population_vars, temporal_vars, dialog_vars>>

\* a Checkbutton of the Services frame (line 305): it only flips its variable
ToggleService ==
    \E service \in ServiceChoices :
        /\ services_vars' = [services_vars EXCEPT ![service] = ~services_vars[service]]
        /\ UNCHANGED <<facilities_region_var, facility_type_var, facilities_map_frame>>
        /\ UNCHANGED <<search_vars, store, clock, hiv_vars, regional_vars, policy_vars,
                       population_vars, temporal_vars, dialog_vars>>

\* the "Update Map" button (line 322) and View > Health Facilities (825-828)
UpdateFacilitiesMap ==
    /\ UNCHANGED facilities_sel
    /\ update_facilities_map(facilities_region_var, facility_type_var, services_vars)
    /\ UNCHANGED <<search_vars, store, clock, hiv_vars, regional_vars, policy_vars,
                   population_vars, temporal_vars, dialog_vars>>

\* ------------------------------------------------------ facility search
\* The 'name' column as text: f"Facility_{i}", line 93
NameText(name) ==
    <<"F", "a", "c", "i", "l", "i", "t", "y", "_">> \o
    (CASE name = "Facility_1" -> <<"1">>
       [] name = "Facility_2" -> <<"2">>
       [] name = "Facility_3" -> <<"3">>
       [] name = "Facility_4" -> <<"4">>)

Whitespace == {" ", "\t", "\n"}
UpperCase == <<"A", "B", "C", "D", "E", "F", "G", "H", "I", "J", "K", "L", "M",
               "N", "O", "P", "Q", "R", "S", "T", "U", "V", "W", "X", "Y", "Z">>
LowerCase == <<"a", "b", "c", "d", "e", "f", "g", "h", "i", "j", "k", "l", "m",
               "n", "o", "p", "q", "r", "s", "t", "u", "v", "w", "x", "y", "z">>

\* x.strip()
strip(x) ==
    IF \A i \in DOMAIN x : x[i] \in Whitespace THEN <<>>
    ELSE LET first == CHOOSE i \in DOMAIN x :
                          x[i] \notin Whitespace /\ \A j \in 1..(i-1) : x[j] \in Whitespace
             last == CHOOSE i \in DOMAIN x :
                         x[i] \notin Whitespace /\ \A j \in (i+1)..Len(x) : x[j] \in Whitespace
         IN SubSeq(x, first, last)

\* x.lower()
lower(x) ==
    [i \in DOMAIN x |-> IF IndexOf(UpperCase, x[i]) # 0
                        THEN LowerCase[IndexOf(UpperCase, x[i])]
                        ELSE x[i]]

\* Series.str.contains(pat) is re.search(pat, x): for a pattern of letters,
\* digits, '_', ' ' and '.', each character stands for itself and '.' for
\* any character.
str_contains(pat, x) ==
    \E i \in 0..(Len(x) - Len(pat)) :
        \A k \in DOMAIN pat : pat[k] = "." \/ x[i + k] = pat[k]

\* lines 939-941: the rows whose lower-cased name contains the search term
matching_facilities(search_var) ==
    SelectSeq(health_facilities,
              LAMBDA f : str_contains(lower(strip(search_var)), lower(NameText(f.name))))

\* Texts typed in the search entry (line 317): nothing, blanks, a name in
\* mixed case with a trailing blank, a pattern with '.', a facility type.
SearchTexts ==
    { <<>>,
      <<" ", " ">>,
      <<"F", "a", "c", "i", "l", "i", "t", "y", "_", "1", " ">>,
      <<"t", "y", "_", ".">>,
      <<"c", "l", "i", "n", "i", "c">> }

\* display_facility_details(facility), lines 987-1009
display_facility_details(facility) ==
    facility_details_text' =
        [kind |-> "details", name |-> facility.name,
         facility_type |-> facility.facility_type, region |-> facility.region,
         services |-> facility.services]

\* typing in the search entry, line 317
TypeSearch ==
    \E v \in SearchTexts :
        /\ facility_search_var' = v
        /\ UNCHANGED <<results_windows, facility_details_text, facilities_sel,
                       facilities_map_frame>>
        /\ UNCHANGED <<store, clock, hiv_vars, regional_vars, policy_vars,
                       population_vars, temporal_vars, dialog_vars>>

\* search_facilities, lines 930-969: the "Search" button (line 319).  Each
\* search with a match opens one more results window holding its matches;
\* at most MaxWindows of them are open at a time.
search_facilities ==
    /\ \/ Len(results_windows) < MaxWindows
       \/ lower(strip(facility_search_var)) = <<>>
       \/ matching_facilities(facility_search_var) = <<>>
    /\ IF lower(strip(facility_search_var)) = <<>>
       THEN /\ messagebox' = Dialog("showinfo", "Search",
                                    "Please enter a search term.", <<>>)
            /\ UNCHANGED results_windows
       ELSE IF matching_facilities(facility_search_var) = <<>>
       THEN /\ messagebox' = Dialog("showinfo", "Search Results",
                                    "No facilities found matching your search.", <<>>)
            /\ UNCHANGED results_windows
       ELSE /\ results_windows' =
                  Append(results_windows, matching_facilities(facility_search_var))
            /\ UNCHANGED messagebox
    /\ UNCHANGED <<facility_search_var, facility_details_text, facilities_sel,
                   facilities_map_frame, export_file>>
    /\ UNCHANGED <<store, clock, hiv_vars, regional_vars, policy_vars,
                   population_vars, temporal_vars>>

\* show_selected_facility, lines 971-982: "View Details" with the row index
\* selected in the listbox of one open results window, which is destroyed.
show_selected_facility ==
    \E w \in DOMAIN results_windows :
        \E matches \in {results_windows[w]}, index \in DOMAIN results_windows[w] :
            /\ display_facility_details(matches[index])
            /\ facilities_region_var' = matches[index].region
            /\ facility_type_var' = matches[index].facility_type
            /\ UNCHANGED services_vars
            /\ update_facilities_map(matches[index].region,
                                     matches[index].facility_type, services_vars)
            /\ results_windows' = SubSeq(results_windows, 1, w - 1)
                                   \o SubSeq(results_windows, w + 1, Len(results_windows))
            /\ UNCHANGED facility_search_var
            /\ UNCHANGED <<store, clock, hiv_vars, regional_vars, policy_vars,
                           population_vars, temporal_vars, dialog_vars>>

\* on_click writing the distance column into the table of the Record Store
\* instead of the copy made at line 837.
on_clickMutInPlace ==
    /\ facilities_map_frame.drawn
    /\ facilities_map_frame.filtered_facilities # <<>>
    /\ \E closest \in Range(facilities_map_frame.filtered_facilities) :
           display_facility_details(closest)
    /\ health_facilities' =
           [i \in DOMAIN health_facilities |->
               [name |-> health_facilities[i].name,
                region |-> health_facilities[i].region,
                facility_type |-> health_facilities[i].facility_type,
                services |-> health_facilities[i].services,
                distance |-> "computed"]]
    /\ UNCHANGED <<hiv_data, population_data>>
    /\ UNCHANGED <<facility_search_var, results_windows, facilities_sel,
                   facilities_map_frame>>
    /\ UNCHANGED <<clock, hiv_vars, regional_vars, policy_vars,
                   population_vars, temporal_vars, dialog_vars>>

\* on_click, lines 905-925: a click on the drawn map within 0.5 of a plotted
\* facility shows that facility; the distances go into the copy of line 837.
on_click ==
    /\ facilities_map_frame.drawn
    /\ facilities_map_frame.filtered_facilities # <<>>
    /\ \E closest \in Range(facilities_map_frame.filtered_facilities) :
           display_facility_details(closest)
    /\ UNCHANGED <<facility_search_var, results_windows, facilities_sel,
                   facilities_map_frame>>
    /\ UNCHANGED <<store, clock, hiv_vars, regional_vars, policy_vars,
                   population_vars, temporal_vars, dialog_vars>>

\* --------------------------------------------------------- Temporal Trends
TrendTypes == {"New Cases Over Time", "Age Group Comparison", "Gender Comparison",
               "Treatment Status", "Diagnosis Status Over Time"}
Granularities == {"Yearly", "Quarterly", "Monthly"}
TemporalRegionChoices == {"All", "Erongo"}

\* Texts typed in the Start Date and End Date entries: the defaults (lines 436
\* and 440), a date without zero padding, the date of a row, a day that does
\* not exist and a text in another format.
DefaultStartText == <<"2", "0", "1", "5", "-", "0", "1", "-", "0", "1">>
DefaultEndText == <<"2", "0", "2", "4", "-", "1", "2", "-", "3", "1">>

StartTexts == { DefaultStartText,
                <<"2", "0", "1", "7", "-", "1", "-", "1">>,
                <<"2", "0", "1", "9", "-", "0", "2", "-", "3", "0">> }

EndTexts == { DefaultEndText,
              <<"2", "0", "2", "0", "-", "0", "1", "-", "1", "5">>,
              <<"2", "0", "2", "0", "/", "0", "1", "/", "1", "5">> }

\* lines 1274-1282
FreqOf(time_granularity) ==
    IF time_granularity = "Yearly" THEN "Y"
    ELSE IF time_granularity = "Quarterly" THEN "Q"
    ELSE "M"

\* DateRangeFilter with the end of the range excluded.
DateRangeFilterMutOpenEnd(data, region, start_date, end_date) ==
    LET f1 == IF region # "All" THEN SelectSeq(data, LAMBDA r : r.region = region) ELSE data
    IN SelectSeq(f1, LAMBDA r : r.diagnosis_date >= start_date /\ r.diagnosis_date < end_date)

\* lines 1243-1260 (export_filtered_data: 1520-1537)
DateRangeFilter(data, region, start_date, end_date) ==
    LET f1 == IF region # "All" THEN SelectSeq(data, LAMBDA r : r.region = region) ELSE data
    IN SelectSeq(f1, LAMBDA r : r.diagnosis_date >= start_date /\ r.diagnosis_date <= end_date)

\* The calendar bucket of each row of df (computed once by its users)
BucketsOf(df, freq) == [i \in DOMAIN df |-> Bucket(df[i].diagnosis_date, freq)]

\* CountPerBucket without the empty buckets: one row per bucket holding a row.
CountPerBucketMutObserved(bs, freq) ==
    LET index == SortedSeq(Range(bs))
    IN [k \in DOMAIN index |->
            [period |-> BucketLabel(index[k], freq),
             count |-> Cardinality({i \in DOMAIN bs : bs[i] = index[k]})]]

\* The rows of a resampled series, from the buckets bs of the rows of a table
CountPerBucket(bs, freq) ==
    LET first == CHOOSE b \in Range(bs) : \A c \in Range(bs) : b <= c
        last == CHOOSE b \in Range(bs) : \A c \in Range(bs) : c <= b
    IN [k \in 1..(last - first + 1) |->
            [period |-> BucketLabel(first + k - 1, freq),
             count |-> Cardinality({i \in DOMAIN bs : bs[i] = first + k - 1})]]

\* resample_size giving an empty table one bucket holding 0 rows.
resample_sizeMutEmptyRow(df, freq) ==
    IF df = <<>> THEN <<[period |-> 0, count |-> 0]>>
    ELSE CHOOSE series \in {CountPerBucket(bs, freq) : bs \in {BucketsOf(df, freq)}} : TRUE

\* df.resample(freq, on='diagnosis_date').size(): one row per bucket from the
\* bucket of the earliest row to the bucket of the latest, with the number of
\* rows in it; no row for an empty table.
resample_size(df, freq) ==
    IF df = <<>> THEN <<>>
    ELSE CHOOSE series \in {CountPerBucket(bs, freq) : bs \in {BucketsOf(df, freq)}} : TRUE

\* The values of a column in sorted order
SortedValues(col) ==
    IF col = "age_group" THEN age_groups
    ELSE IF col = "gender" THEN <<"Female", "Male">>
    ELSE IF col = "on_treatment" THEN <<FALSE, TRUE>>
    ELSE <<"New", "Previously diagnosed">>

\* df.groupby([pd.Grouper(key='diagnosis_date', freq=freq), col]).size().unstack():
\* a row per bucket holding a row of df, a column per value of col present in
\* df, and in each cell the number of rows, NaN where there is none.
CrossTable(df, bs, freq, col) ==
    LET index == SortedSeq(Range(bs))
        columns == SelectSeq(SortedValues(col),
                             LAMBDA v : \E i \in DOMAIN df : df[i][col] = v)
        size(b, v) == Cardinality({i \in DOMAIN df : bs[i] = b /\ df[i][col] = v})
    IN [index |-> [k \in DOMAIN index |-> BucketLabel(index[k], freq)],
        columns |-> columns,
        cells |-> [k \in DOMAIN index |->
                     [c \in DOMAIN columns |->
                        IF size(index[k], columns[c]) = 0 THEN NaN
                        ELSE Rat(size(index[k], columns[c]), 1)]]]

groupby_unstack(df, freq, col) ==
    CHOOSE table \in {CrossTable(df, bs, freq, col) : bs \in {BucketsOf(df, freq)}} : TRUE

\* update_trend_statistics(time_series, series_type), lines 1376-1412: the
\* statistics the text box is filled with, from the counts xs of the series
\* (computed once).
TrendStatistics(xs, series_type) ==
    [kind |-> "statistics",
     series_type |-> series_type,
     mean |-> Mean(xs),
     variance |-> SampleVariance(xs),
     minimum |-> CHOOSE x \in Range(xs) : \A y \in Range(xs) : x <= y,
     maximum |-> CHOOSE x \in Range(xs) : \A y \in Range(xs) : y <= x,
     latest |-> xs[Len(xs)],
     change |-> IF Len(xs) >= 2
                THEN [kind |-> "percent",
                      value |-> PercentChange(Rat(xs[Len(xs)], 1), Rat(xs[Len(xs) - 1], 1))]
                ELSE [kind |-> "insufficient data"]]

update_trend_statistics(time_series, series_type) ==
    IF time_series = <<>> THEN [kind |-> "no data"]
    ELSE CHOOSE stats_text \in {TrendStatistics(xs, series_type) :
                                    xs \in {Column(time_series, "count")}} : TRUE

\* lines 1284-1366: what the chart of a trend type is drawn from
TrendChart(filtered_data, trend_type, freq) ==
    IF trend_type = "New Cases Over Time"
    THEN [kind |-> "series", series |-> resample_size(filtered_data, freq)]
    ELSE [kind |-> "table",
          table |-> groupby_unstack(filtered_data, freq,
                        IF trend_type = "Age Group Comparison" THEN "age_group"
                        ELSE IF trend_type = "Gender Comparison" THEN "gender"
                        ELSE IF trend_type = "Treatment Status" THEN "on_treatment"
                        ELSE "diagnosis_status")]

\* update_temporal_trends, lines 1237-1374.  The frame is cleared first; a date
\* that does not parse, or an empty selection, ends the call with a messagebox.
update_temporal_trends(trend_type, time_granularity, region, start_text, end_text) ==
    IF strptime_raises(start_text) \/ strptime_raises(end_text)
    THEN /\ temporal_vis_frame' = EmptyFrame
         /\ messagebox' = Dialog("showerror", "Error",
                                 "Invalid date format. Please use YYYY-MM-DD.", <<>>)
         /\ UNCHANGED trend_stats_text
    ELSE \E filtered_data \in {DateRangeFilter(hiv_data, region,
                                               strptime(start_text), strptime(end_text))} :
         IF filtered_data = <<>>
         THEN /\ temporal_vis_frame' = EmptyFrame
              /\ messagebox' = Dialog("showwarning", "No Data",
                                      "No data available for the selected filters.", <<>>)
              /\ UNCHANGED trend_stats_text
         ELSE \E chart \in {TrendChart(filtered_data, trend_type, FreqOf(time_granularity))} :
              /\ temporal_vis_frame' =
                    [drawn |-> TRUE,
                     filtered_data |-> filtered_data,
                     trend_type |-> trend_type,
                     time_granularity |-> time_granularity,
                     chart |-> chart]
              /\ trend_stats_text' =
                    IF trend_type = "New Cases Over Time"
                    THEN update_trend_statistics(chart.series, "cases")
                    ELSE trend_stats_text
              /\ UNCHANGED messagebox

\* <<ComboboxSelected>> bindings, lines 412, 420 and 428
SelectTrendType ==
    \E v \in TrendTypes :
        /\ trend_type_var' = v
        /\ UNCHANGED <<time_granularity_var, temporal_region_var, start_date_var, end_date_var>>
        /\ update_temporal_trends(v, time_granularity_var, temporal_region_var,
                                  start_date_var, end_date_var)
        /\ UNCHANGED <<store, clock, hiv_vars, regional_vars, policy_vars,
                       population_vars, facilities_vars, export_file>>

SelectGranularity ==
    \E v \in Granularities :
        /\ time_granularity_var' = v
        /\ UNCHANGED <<trend_type_var, temporal_region_var, start_date_var, end_date_var>>
        /\ update_temporal_trends(trend_type_var, v, temporal_region_var,
                                  start_date_var, end_date_var)
        /\ UNCHANGED <<store, clock, hiv_vars, regional_vars, policy_vars,
                       population_vars, facilities_vars, export_file>>

SelectTemporalRegion ==
    \E v \in TemporalRegionChoices :
        /\ temporal_region_var' = v
        /\ UNCHANGED <<trend_type_var, time_granularity_var, start_date_var, end_date_var>>
        /\ update_temporal_trends(trend_type_var, time_granularity_var, v,
                                  start_date_var, end_date_var)
        /\ UNCHANGED <<store, clock, hiv_vars, regional_vars, policy_vars,
                       population_vars, facilities_vars, export_file>>

\* typing in the Start Date / End Date entries (lines 437 and 441): no binding
TypeStartDate ==
    \E text \in StartTexts :
        /\ start_date_var' = text
        /\ UNCHANGED <<trend_type_var, time_granularity_var, temporal_region_var,
                       end_date_var, temporal_out>>
        /\ UNCHANGED <<store, clock, hiv_vars, regional_vars, policy_vars,
                       population_vars, facilities_vars, dialog_vars>>

TypeEndDate ==
    \E text \in EndTexts :
        /\ end_date_var' = text
        /\ UNCHANGED <<trend_type_var, time_granularity_var, temporal_region_var,
                       start_date_var, temporal_out>>
        /\ UNCHANGED <<store, clock, hiv_vars, regional_vars, policy_vars,
                       population_vars, facilities_vars, dialog_vars>>

\* the "Update Trends" button (line 444) and View > Temporal Trends (1232-1235)
UpdateTemporalTrends ==
    /\ UNCHANGED temporal_sel
    /\ update_temporal_trends(trend_type_var, time_granularity_var, temporal_region_var,
                              start_date_var, end_date_var)
    /\ UNCHANGED <<store, clock, hiv_vars, regional_vars, policy_vars,
                   population_vars, facilities_vars, export_file>>

\* ------------------------------------------------------------ Policy Impact
DefaultPolicyText == <<"2", "0", "2", "0", "-", "0", "1", "-", "0", "1">>

\* Texts typed in the policy date entry: the default (line 380), the date of a
\* row, a date between two rows of one month, and a text in another format.
PolicyTexts == { DefaultPolicyText,
                 <<"2", "0", "2", "0", "-", "0", "1", "-", "1", "5">>,
                 <<"2", "0", "1", "5", "-", "0", "1", "-", "0", "2">>,
                 <<"1", "5", "-", "0", "1", "-", "2", "0", "2", "0">> }

\* lines 1165-1166: the rows before the policy date, and the rows on or after it
PrePolicy(filtered_data, policy_date) ==
    SelectSeq(filtered_data, LAMBDA r : r.diagnosis_date < policy_date)

\* PostPolicy with the rows of the policy date itself left out.
PostPolicyMutStrict(filtered_data, policy_date) ==
    SelectSeq(filtered_data, LAMBDA r : r.diagnosis_date > policy_date)

PostPolicy(filtered_data, policy_date) ==
    SelectSeq(filtered_data, LAMBDA r : r.diagnosis_date >= policy_date)

\* assess_policy_impact, lines 1150-1230
assess_policy_impact(policy_text, region) ==
    IF strptime_raises(policy_text)
    THEN /\ messagebox' = Dialog("showerror", "Error",
                                 "Invalid date format. Please use YYYY-MM-DD.", <<>>)
         /\ UNCHANGED impact_window
    ELSE \E policy_date \in {strptime(policy_text)} :
         \E filtered_data \in {IF region # "All"
                               THEN SelectSeq(hiv_data, LAMBDA r : r.region = region)
                               ELSE hiv_data} :
         \E pre_policy \in {PrePolicy(filtered_data, policy_date)} :
         \E post_policy \in {PostPolicy(filtered_data, policy_date)} :
         \E pre_monthly \in {resample_size(pre_policy, "M")} :
         \E post_monthly \in {resample_size(post_policy, "M")} :
         \E pre_mean \in {IF pre_monthly # <<>>
                          THEN Mean(Column(pre_monthly, "count")) ELSE Rat(0, 1)} :
         \E post_mean \in {IF post_monthly # <<>>
                           THEN Mean(Column(post_monthly, "count")) ELSE Rat(0, 1)} :
            /\ impact_window' =
                  [drawn |-> TRUE,
                   policy_date |-> policy_date,
                   region |-> region,
                   pre_policy |-> pre_policy,
                   post_policy |-> post_policy,
                   pre_monthly |-> pre_monthly,
                   post_monthly |-> post_monthly,
                   pre_mean |-> pre_mean,
                   pre_variance |-> IF pre_monthly # <<>>
                                    THEN SampleVariance(Column(pre_monthly, "count"))
                                    ELSE Rat(0, 1),
                   post_mean |-> post_mean,
                   post_variance |-> IF post_monthly # <<>>
                                     THEN SampleVariance(Column(post_monthly, "count"))
                                     ELSE Rat(0, 1),
                   change |-> IF FloatPositive(pre_mean)
                              THEN [kind |-> "percent",
                                    value |-> PercentChange(post_mean, pre_mean)]
                              ELSE [kind |-> "none"]]
            /\ UNCHANGED messagebox

\* typing in the policy date entry (line 381): no binding
TypePolicyDate ==
    \E text \in PolicyTexts :
        /\ policy_date_var' = text
        /\ UNCHANGED <<impact_window, regional_vars>>
        /\ UNCHANGED <<store, clock, hiv_vars, population_vars, facilities_vars,
                       temporal_vars, dialog_vars>>

\* the "Assess Policy Impact" button (line 383)
AssessPolicyImpact ==
    /\ assess_policy_impact(policy_date_var, regional_analysis_var)
    /\ UNCHANGED <<policy_date_var, regional_vars>>
    /\ UNCHANGED <<store, clock, hiv_vars, population_vars, facilities_vars,
                   temporal_vars, export_file>>

\* ------------------------------------------------------------------ export
\* What filedialog.asksaveasfilename returns: nothing (the dialog is
\* cancelled), a .csv path or an .xlsx path.
FilePaths == { <<>>, <<"a", ".", "c", "s", "v">>, <<"a", ".", "x", "l", "s", "x">> }

\* DataToExport with the time frame filter of the HIV tab left out.
DataToExportMutNoTimeFrame(data_type, now) ==
    IF data_type = "hiv"
    THEN HivFilter(hiv_data, "All Time", age_group_var, gender_var, diagnosis_var, now)
    ELSE IF data_type = "facilities"
    THEN FacilityFilter(health_facilities, facilities_region_var, facility_type_var,
                        SelectedServices(services_vars))
    ELSE IF data_type = "regional"
    THEN RegionalFilter(hiv_data, regional_analysis_var, regional_time_var, now)
    ELSE DateRangeFilter(hiv_data, temporal_region_var,
                         strptime(start_date_var), strptime(end_date_var))

\* lines 1443-1537: data_to_export for a data type
DataToExport(data_type, now) ==
    IF data_type = "hiv"
    THEN HivFilter(hiv_data, time_frame_var, age_group_var, gender_var, diagnosis_var, now)
    ELSE IF data_type = "population"
    THEN LET merged == MergeOnRegion(value_counts(Column(hiv_data, "region")),
                                     population_data)
         IN [i \in DOMAIN merged |->
                [region |-> merged[i].region, cases |-> merged[i].cases,
                 population |-> merged[i].population,
                 area_sqkm |-> merged[i].area_sqkm,
                 density |-> merged[i].density,
                 prevalence_rate |-> TrueDiv(merged[i].cases, merged[i].population)]]
    ELSE IF data_type = "facilities"
    THEN FacilityFilter(health_facilities, facilities_region_var, facility_type_var,
                        SelectedServices(services_vars))
    ELSE IF data_type = "regional"
    THEN RegionalFilter(hiv_data, regional_analysis_var, regional_time_var, now)
    ELSE DateRangeFilter(hiv_data, temporal_region_var,
                         strptime(start_date_var), strptime(end_date_var))

\* export_filtered_data(data_type), lines 1430-1550, with the path the file
\* dialog returned and whether the file could be written.
export_filtered_data(data_type, file_path, write_ok, now) ==
    IF file_path = <<>>
    THEN UNCHANGED dialog_vars
    ELSE IF data_type = "temporal"
            /\ (strptime_raises(start_date_var) \/ strptime_raises(end_date_var))
    THEN /\ messagebox' = Dialog("showerror", "Error",
                                 "Invalid date format in date range.", <<>>)
         /\ UNCHANGED export_file
    ELSE IF write_ok
    THEN /\ export_file' =
              [written |-> TRUE,
               path |-> file_path,
               format |-> IF EndsWith(file_path, <<".", "x", "l", "s", "x">>) THEN "excel" ELSE "csv",
               data_type |-> data_type,
               rows |-> DataToExport(data_type, now)]
         /\ messagebox' = Dialog("showinfo", "Export Successful",
                                 "Data exported successfully to:", file_path)
    ELSE /\ messagebox' = Dialog("showerror", "Export Error",
                                 "Failed to export data:", <<"O", "S", "E", "r", "r", "o", "r">>)
         /\ UNCHANGED export_file

\* the "Export Data" button of the facilities tab, line 334
ExportFacilities ==
    \E file_path \in FilePaths, write_ok \in BOOLEAN :
        /\ export_filtered_data("facilities", file_path, write_ok, clock)
        /\ UNCHANGED <<store, clock, hiv_vars, regional_vars, policy_vars,
                       population_vars, facilities_vars, temporal_vars>>

\* the "Export Data" button of the temporal tab, line 455
ExportTemporal ==
    \E file_path \in FilePaths, write_ok \in BOOLEAN :
        /\ export_filtered_data("temporal", file_path, write_ok, clock)
        /\ UNCHANGED <<store, clock, hiv_vars, regional_vars, policy_vars,
                       population_vars, facilities_vars, temporal_vars>>

\* the "Export Data" buttons of the HIV and regional tabs, lines 230 and 389:
\* datetime.now() is read inside the relative time branches (1448-1452,
\* 1507-1515), after the file dialog returned a path
ExportHiv ==
    \E file_path \in FilePaths, write_ok \in BOOLEAN, now \in NowSample :
        /\ ReadClock(file_path # <<>> /\ time_frame_var \in RelativePresets, now)
        /\ export_filtered_data("hiv", file_path, write_ok, now)
        /\ UNCHANGED <<store, hiv_vars, regional_vars, policy_vars,
                       population_vars, facilities_vars, temporal_vars>>

ExportRegional ==
    \E file_path \in FilePaths, write_ok \in BOOLEAN, now \in NowSample :
        /\ ReadClock(file_path # <<>> /\ regional_time_var \in RelativePresets, now)
        /\ export_filtered_data("regional", file_path, write_ok, now)
        /\ UNCHANGED <<store, hiv_vars, regional_vars, policy_vars,
                       population_vars, facilities_vars, temporal_vars>>

\* ------------------------------------------------------------------ Init
\* __init__: load_dummy_data, the widgets at their defaults, then
\* show_hiv_distribution -> update_hiv_map.
\* A fixed table of cases and a fixed table of facilities, for the
\* specifications that do not draw them.
SampleCases ==
    << Case("Erongo", "Male",   "0-14",  datetime(2019, 1, 1),  "New", TRUE),
       Case("Hardap", "Male",   "15-24", datetime(2020, 1, 15), "Previously diagnosed", TRUE) >>

SampleFacilities ==
    << Facility("Facility_1", "Erongo", "Hospital", <<"HIV Testing", "Counseling">>),
       Facility("Facility_2", "Hardap", "Clinic",   <<"PrEP", "Youth Services">>) >>

InitStore ==
    /\ hiv_data \in SeqsOf(CaseUniverse, 1, MaxRecords)
    /\ population_data = PopulationData(population)
    /\ health_facilities = SampleFacilities

\* the program starts at StartTime
StartTime == datetime(2020, 1, 1)

InitHiv ==
    /\ clock = StartTime
    /\ time_frame_var = "All Time"
    /\ age_group_var = "All"
    /\ gender_var = "All"
    /\ diagnosis_var = "All"
    /\ total_cases_var = Len(hiv_data)
    /\ filtered_cases_var = Len(HivFilter(hiv_data, "All Time", "All", "All", "All", clock))
    /\ highest_region_var = HighestRegion(HivFilter(hiv_data, "All Time", "All", "All", "All", clock))
    /\ hiv_map_frame = [drawn |-> TRUE,
                        filtered_data |-> HivFilter(hiv_data, "All Time", "All", "All", "All", clock),
                        now |-> None]

\* The frames of the other tabs are empty until their first update.
InitRegional ==
    /\ regional_analysis_var = "All"
    /\ comparison_type_var = "Cases by Region"
    /\ regional_time_var = "All Time"
    /\ regional_vis_frame = EmptyFrame
    /\ policy_date_var = DefaultPolicyText
    /\ impact_window = EmptyFrame

InitPopulation ==
    /\ pop_display_var = "Population Density"
    /\ population_map_frame = EmptyFrame
    /\ risk_threshold_var = Rat(1, 100)
    /\ risk_window = EmptyFrame
    /\ corr_result_var = [calculated |-> FALSE]
    /\ corr_window = EmptyFrame

InitFacilitiesTab ==
    /\ facilities_region_var = "All"
    /\ facility_type_var = "All"
    /\ services_vars = [service \in Range(services) |-> FALSE]
    /\ facilities_map_frame = EmptyFrame
    /\ facility_search_var = <<>>
    /\ results_windows = <<>>
    /\ facility_details_text = [kind |-> "hint"]

InitTemporal ==
    /\ trend_type_var = "New Cases Over Time"
    /\ time_granularity_var = "Yearly"
    /\ temporal_region_var = "All"
    /\ start_date_var = DefaultStartText
    /\ end_date_var = DefaultEndText
    /\ temporal_vis_frame = EmptyFrame
    /\ trend_stats_text = [kind |-> "hint"]

InitTabs ==
    /\ InitHiv /\ InitRegional /\ InitPopulation /\ InitFacilitiesTab /\ InitTemporal
    /\ messagebox = NoDialog
    /\ export_file = NoFile

Init == InitStore /\ InitTabs

\* A Record Store whose region profiles need not have a positive population
\* (the profile invariant of the data model is population >= 0): the first
\* ZeroPopRegions regions have the population of the code or 0.
ProfileTables ==
    {[i \in DOMAIN regions |-> IF i \in Z THEN 0 ELSE population[i]] :
        Z \in SUBSET (1..ZeroPopRegions)}

InitAnyProfile ==
    /\ hiv_data \in SeqsOf(CaseUniverse, 1, MaxRecords)
    /\ \E pop \in ProfileTables : population_data = PopulationData(pop)
    /\ health_facilities = SampleFacilities
    /\ InitTabs

\* A Record Store with 50 cases in each of two regions, whose populations are
\* 100000 and 50000: prevalences 0.0005 and 0.001, rates per 100,000 of 50 and
\* 100.  The second prevalence lies on the low end of the risk scale.
ScenarioCases ==
    [i \in 1..100 |->
        IF i <= 50
        THEN Case("Erongo", "Male", "0-14", datetime(2019, 1, 1), "New", TRUE)
        ELSE Case("Hardap", "Female", "15-24", datetime(2019, 1, 1), "New", FALSE)]

ScenarioPopulation ==
    [i \in DOMAIN regions |->
        IF i = 1 THEN 100000 ELSE IF i = 2 THEN 50000 ELSE population[i]]

InitScenario ==
    /\ hiv_data = ScenarioCases
    /\ population_data = PopulationData(ScenarioPopulation)
    /\ health_facilities = SampleFacilities
    /\ InitTabs

\* The inputs of the correlation analysis: one case row per region for three
\* regions, and tables of region profiles with or without the third region.
CorrelationCases ==
    {c \in CaseUniverse : c.diagnosis_date \in {datetime(2019, 1, 1), datetime(2020, 1, 15),
                                                 datetime(2020, 3, 10)}}

PartialProfiles ==
    {SelectSeq(PopulationData(population), LAMBDA row : row.region \notin D) :
        D \in {{}, {"Karas"}}}

InitPartialProfiles ==
    /\ hiv_data \in SeqsOf(CorrelationCases, 1, MaxPairs)
    /\ population_data \in PartialProfiles
    /\ health_facilities = SampleFacilities
    /\ InitTabs

\* The risk threshold as an input of update_high_risk_areas: the values a
\* DoubleVar can hold, on the scale (0.001 .. 0.05) and off it (negative, zero,
\* above 1).
ThresholdInputs ==
    ThresholdChoices \cup {[num |-> -1, den |-> 100], Rat(0, 1), Rat(2, 1)}

InitAnyThreshold ==
    /\ InitStore
    /\ InitHiv /\ InitRegional /\ InitFacilitiesTab /\ InitTemporal
    /\ pop_display_var = "Population Density"
    /\ population_map_frame = EmptyFrame
    /\ risk_threshold_var \in ThresholdInputs
    /\ risk_window = EmptyFrame
    /\ corr_result_var = [calculated |-> FALSE]
    /\ corr_window = EmptyFrame
    /\ messagebox = NoDialog
    /\ export_file = NoFile

\* The Record Store with the facilities drawn and the cases fixed
InitFacilities ==
    /\ hiv_data = SampleCases
    /\ population_data = PopulationData(population)
    /\ health_facilities \in SeqsOf(FacilityUniverse, 1, MaxFacilities)
    /\ InitTabs

\* The Record Store with both tables fixed
InitSample ==
    /\ hiv_data = SampleCases
    /\ population_data = PopulationData(population)
    /\ health_facilities = SampleFacilities
    /\ InitTabs

NextHiv ==
    \/ SelectTimeFrame
    \/ SelectAgeGroup
    \/ SelectGender
    \/ SelectDiagnosis
    \/ UpdateHivMap

SpecHiv == Init /\ [][NextHiv]_vars

NextRegional ==
    \/ SelectRegionalRegion
    \/ SelectComparisonType
    \/ SelectRegionalTime
    \/ UpdateRegionalAnalysis

SpecRegional == Init /\ [][NextRegional]_vars

NextPopulation ==
    \/ SelectPopDisplay
    \/ ReleaseRiskScale
    \/ IdentifyHighRisk
    \/ AnalyzeCorrelation

\* The population tab over any table of region profiles
SpecProfiles == InitAnyProfile /\ [][NextPopulation]_vars

NextCorrelation ==
    \/ AnalyzeCorrelation
    \/ ReleaseRiskScale
    \/ IdentifyHighRisk

\* The analyses that merge the case counts with the region profiles
SpecCorrelation == InitPartialProfiles /\ [][NextCorrelation]_vars

\* The population tab with any value in the threshold variable
SpecThresholds == InitAnyThreshold /\ [][NextPopulation]_vars

NextScenario ==
    \/ SelectRegionalRegion
    \/ SelectComparisonType
    \/ SelectRegionalTime
    \/ UpdateRegionalAnalysis
    \/ ReleaseRiskScale
    \/ IdentifyHighRisk

\* The rates of the regional tab and the risk classification over the
\* two-region Record Store
SpecScenario == InitScenario /\ [][NextScenario]_vars

NextFacilities ==
    \/ SelectFacilitiesRegion
    \/ SelectFacilityType
    \/ ToggleService
    \/ UpdateFacilitiesMap
    \/ ExportFacilities

SpecFacilities == InitFacilities /\ [][NextFacilities]_vars

NextSearch ==
    \/ SelectFacilitiesRegion
    \/ SelectFacilityType
    \/ ToggleService
    \/ UpdateFacilitiesMap
    \/ TypeSearch
    \/ search_facilities
    \/ show_selected_facility
    \/ on_click
    \/ ExportFacilities

\* The facilities tab with its search and its export
SpecSearch == InitSample /\ [][NextSearch]_vars

NextExport ==
    \/ SelectTimeFrame
    \/ SelectRegionalTime
    \/ SelectFacilityType
    \/ SelectTemporalRegion
    \/ ExportHiv
    \/ ExportRegional
    \/ ExportFacilities
    \/ ExportTemporal

\* The filters of the four tabs with an export button, and their exports
SpecExport == InitSample /\ [][NextExport]_vars

NextIndependence ==
    \/ SelectGender
    \/ SelectRegionalRegion
    \/ SelectFacilityType
    \/ SelectTemporalRegion
    \/ ReleaseRiskScale
    \/ IdentifyHighRisk
    \/ AnalyzeCorrelation

\* The risk classification and the correlation analysis among filter
\* selections on the four other tabs, over the two-region Record Store
SpecIndependence == InitScenario /\ [][NextIndependence]_vars

NextDateRange ==
    \/ TypeStartDate
    \/ TypeEndDate
    \/ SelectTemporalRegion
    \/ UpdateTemporalTrends

\* The date range of the temporal tab
SpecDateRange == Init /\ [][NextDateRange]_vars

NextTrends ==
    \/ SelectTrendType
    \/ SelectGranularity
    \/ SelectTemporalRegion
    \/ UpdateTemporalTrends

\* The trend types and granularities of the temporal tab
SpecTrends == Init /\ [][NextTrends]_vars

NextDateEntry ==
    \/ TypeStartDate
    \/ TypeEndDate
    \/ TypePolicyDate
    \/ UpdateTemporalTrends
    \/ ExportTemporal
    \/ AssessPolicyImpact

\* The three date entries and the handlers that parse them
SpecDateEntry == InitSample /\ [][NextDateEntry]_vars

NextPolicy ==
    \/ TypePolicyDate
    \/ SelectRegionalRegion
    \/ AssessPolicyImpact

\* The policy impact assessment of the regional tab
SpecPolicy == Init /\ [][NextPolicy]_vars

\* ======================================================================
\* Claims
\* ======================================================================

\* ---- C1 ----
\* The constraint each selection of the HIV tab puts on a row; "All Time",
\* "Custom" and "All" put none.
HivPasses(r) ==
    /\ (time_frame_var = "Last Year" =>
            r.diagnosis_date >= hiv_map_frame.now - timedelta(365))
    /\ (time_frame_var = "Last 5 Years" =>
            r.diagnosis_date >= hiv_map_frame.now - timedelta(5*365))
    /\ (age_group_var # "All" => r.age_group = age_group_var)
    /\ (gender_var # "All" => r.gender = gender_var)
    /\ (diagnosis_var # "All" => r.diagnosis_status = diagnosis_var)

\* C1: case-record filtering has AND semantics: the rows update_hiv_map keeps
\* are exactly the rows of hiv_data, in order, that satisfy every active
\* constraint; with every selection at "All" / "All Time" the output is the input.
C1_AndSemantics ==
    /\ hiv_map_frame.filtered_data = SelectSeq(hiv_data, HivPasses)
    /\ filtered_cases_var = Len(SelectSeq(hiv_data, HivPasses))
    /\ (/\ time_frame_var = "All Time" /\ age_group_var = "All"
        /\ gender_var = "All" /\ diagnosis_var = "All")
            => hiv_map_frame.filtered_data = hiv_data

\* Two constraints are active; one row meets both and is kept, another meets
\* the gender constraint only and is dropped.
C1_Witness ==
    /\ gender_var = "Male" /\ diagnosis_var = "New"
    /\ Len(hiv_data) = 2 /\ Len(hiv_map_frame.filtered_data) = 1
    /\ \E i \in DOMAIN hiv_data :
          hiv_data[i].gender = "Male" /\ hiv_data[i].diagnosis_status # "New"

\* ---- C2 ----
\* The tags a facility offers: the items of its 'services' column, which are
\* separated by a comma and a blank.
OfferedTags(f) ==
    LET items == Split(f.services, ",")
    IN {IF items[i] # <<>> /\ items[i][1] = " " THEN Tail(items[i]) ELSE items[i] :
            i \in DOMAIN items}

\* The constraints the selections named by the facilities map put on a facility.
FacilityPasses(f) ==
    /\ (facilities_map_frame.region # "All" => f.region = facilities_map_frame.region)
    /\ (facilities_map_frame.facility_type # "All" =>
            f.facility_type = facilities_map_frame.facility_type)
    /\ (facilities_map_frame.selected_services # <<>> =>
            \E i \in DOMAIN facilities_map_frame.selected_services :
                ServiceText(facilities_map_frame.selected_services[i]) \in OfferedTags(f))

\* C2: facility service filtering has OR semantics: when at least one tag is
\* selected a facility passes the service constraint iff it offers at least
\* one selected tag, when none is selected there is no service constraint, and
\* the service constraint is combined with region and type by AND.
C2_ServiceOrSemantics ==
    facilities_map_frame.drawn =>
        facilities_map_frame.filtered_facilities
            = SelectSeq(health_facilities, FacilityPasses)

\* Two tags are selected; the map keeps a facility that offers only one of
\* them and drops a facility that offers neither.
C2_Witness ==
    /\ facilities_map_frame.drawn
    /\ facilities_map_frame.selected_services = <<"HIV Testing", "PrEP">>
    /\ \E i \in DOMAIN facilities_map_frame.filtered_facilities :
          /\ ServiceText("HIV Testing")
                \in OfferedTags(facilities_map_frame.filtered_facilities[i])
          /\ ServiceText("PrEP")
                \notin OfferedTags(facilities_map_frame.filtered_facilities[i])
    /\ Len(facilities_map_frame.filtered_facilities) < Len(health_facilities)

\* ---- C3 ----
\* C3: filtering is idempotent: the selections applied again to the rows
\* update_hiv_map kept, at the same evaluation time, keep all of them.
C3_Idempotent ==
    HivFilter(hiv_map_frame.filtered_data, time_frame_var, age_group_var,
              gender_var, diagnosis_var, hiv_map_frame.now)
        = hiv_map_frame.filtered_data

\* A filter with a relative date bound and a gender constraint dropped a row
\* and kept another.
C3_Witness ==
    /\ time_frame_var = "Last Year" /\ gender_var = "Male"
    /\ hiv_map_frame.filtered_data # <<>>
    /\ Len(hiv_map_frame.filtered_data) < Len(hiv_data)

\* ---- C4 ----
\* A row is in the date range typed in the entries after the step, bounds
\* included, and in the region selected after the step.
InTypedRange(r) ==
    /\ (temporal_region_var' # "All" => r.region = temporal_region_var')
    /\ strptime(start_date_var') <= r.diagnosis_date
    /\ r.diagnosis_date <= strptime(end_date_var')

\* C4: a date range [start, end] is inclusive on both ends: whenever
\* update_temporal_trends draws a chart or reports "No Data", the rows it kept
\* are exactly the rows with start <= diagnosis_date <= end (and of the
\* selected region), so that rows dated exactly start or exactly end are kept.
C4_InclusiveRange ==
    [][ /\ (temporal_vis_frame' # temporal_vis_frame /\ temporal_vis_frame'.drawn) =>
              temporal_vis_frame'.filtered_data = SelectSeq(hiv_data, InTypedRange)
        /\ (messagebox' # messagebox /\ messagebox'.title = "No Data") =>
              SelectSeq(hiv_data, InTypedRange) = <<>>
      ]_vars

\* The chart is drawn from two rows, dated exactly the start and exactly the
\* end of the typed range.
C4_Witness ==
    /\ temporal_vis_frame.drawn
    /\ ~strptime_raises(start_date_var) /\ ~strptime_raises(end_date_var)
    /\ Len(temporal_vis_frame.filtered_data) = 2
    /\ temporal_vis_frame.filtered_data[1].diagnosis_date = strptime(end_date_var)
    /\ temporal_vis_frame.filtered_data[2].diagnosis_date = strptime(start_date_var)
    /\ strptime(start_date_var) < strptime(end_date_var)

\* ---- C5 ----
\* The number of 365-day years a preset of the regional selector looks back
\* (0: the preset puts no bound).
PresetYears(time) ==
    IF time = "Last Year" THEN 1
    ELSE IF time = "Last 3 Years" THEN 3
    ELSE IF time = "Last 5 Years" THEN 5
    ELSE 0

\* The constraint the selections of the regional tab put on a row, the date
\* bound counted in days back from the now the handler read.
RegionalPasses(r) ==
    /\ (regional_analysis_var # "All" => r.region = regional_analysis_var)
    /\ (PresetYears(regional_time_var) > 0 =>
            r.diagnosis_date >=
                regional_vis_frame.now - PresetYears(regional_time_var) * 365 * TicksPerDay)

\* C5: relative date presets are resolved against the now read by the call:
\* "Last Year" keeps exactly the rows dated >= now - 365 days, "Last 3 Years"
\* those >= now - 3*365 days, "Last 5 Years" those >= now - 5*365 days, and
\* every other preset of the selector puts no date bound.
C5_RelativePresets ==
    regional_vis_frame.drawn =>
        /\ regional_vis_frame.filtered_data = SelectSeq(hiv_data, RegionalPasses)
        /\ regional_time_var \in RelativePresets => regional_vis_frame.now = clock

\* "Last 3 Years" kept a row dated exactly now - 3*365 days and dropped an
\* older one.
C5_Witness ==
    /\ regional_vis_frame.drawn
    /\ regional_time_var = "Last 3 Years"
    /\ regional_analysis_var = "All"
    /\ Len(hiv_data) = 2 /\ Len(regional_vis_frame.filtered_data) = 1
    /\ regional_vis_frame.filtered_data[1].diagnosis_date
            = regional_vis_frame.now - 3 * 365 * TicksPerDay

\* ---- C6 ----
\* The texts of the three date entries that do not parse
MalformedEntries ==
    {raw \in {policy_date_var, start_date_var, end_date_var} : strptime_raises(raw)}

\* C6: a malformed date (policy date, range start or range end) produces an
\* invalid-date failure that is reported, identifies the raw text entered for
\* the malformed field, and stops the request: no policy window is built and
\* no file is written.
C6_InvalidDateIdentified ==
    [][ (/\ messagebox' # messagebox
         /\ messagebox'.kind = "showerror"
         /\ messagebox'.title = "Error") =>
            /\ \E raw \in MalformedEntries : Contains(raw, messagebox'.detail)
            /\ UNCHANGED <<impact_window, export_file, trend_stats_text>>
      ]_vars

\* ---- C7 ----
GroupingDimensions == {"region", "gender", "age_group", "diagnosis_status"}

\* The grouping dimension a comparison type charts counts of ("" for the
\* per-capita chart).
DimensionOf(comparison_type) ==
    IF comparison_type = "Cases by Region" THEN "region"
    ELSE IF comparison_type = "New Cases vs. Previously Diagnosed" THEN "diagnosis_status"
    ELSE IF comparison_type = "Gender Distribution" THEN "gender"
    ELSE IF comparison_type = "Age Group Distribution" THEN "age_group"
    ELSE ""

\* C7: count conservation: for a non-empty filtered table the group counts
\* sum to the number of rows, for each of the four grouping dimensions and in
\* the chart the regional tab draws from them.
C7_CountConservation ==
    (regional_vis_frame.drawn /\ regional_vis_frame.filtered_data # <<>>) =>
        /\ \A dim \in GroupingDimensions :
              SumSeq(Column(value_counts(Column(regional_vis_frame.filtered_data, dim)),
                            "count"))
                  = Len(regional_vis_frame.filtered_data)
        /\ DimensionOf(regional_vis_frame.comparison_type) # "" =>
              SumSeq(Column(regional_vis_frame.chart, "count"))
                  = Len(regional_vis_frame.filtered_data)

\* Two rows fell in one gender group: the chart has a single group of count 2.
C7_Witness ==
    /\ regional_vis_frame.drawn
    /\ regional_vis_frame.comparison_type = "Gender Distribution"
    /\ Len(regional_vis_frame.filtered_data) = 2
    /\ Len(regional_vis_frame.chart) = 1
    /\ regional_vis_frame.chart[1].count = 2

\* ---- C8 ----
\* The region, first in the canonical list `regions`, among those with the
\* most rows in data.
CanonicalHighest(data) ==
    LET col == Column(data, "region")
        i == CHOOSE i \in DOMAIN regions :
                /\ \A j \in DOMAIN regions : CountOf(col, regions[j]) <= CountOf(col, regions[i])
                /\ \A j \in 1..(i-1) : CountOf(col, regions[j]) < CountOf(col, regions[i])
    IN regions[i]

\* C8: when several regions tie for the highest count in the filtered set, the
\* reported highest region is the tied region that comes first in the
\* canonical list of regions, whatever the order of the records.
C8_CanonicalTieBreak ==
    hiv_map_frame.filtered_data # <<>>
        => highest_region_var.region = CanonicalHighest(hiv_map_frame.filtered_data)

\* ---- C9 ----
\* C9: the per-capita rate result has one entry for every region that has a
\* profile; a region with no case in the filtered set appears with rate 0.
C9_EveryRegionHasRate ==
    (/\ regional_vis_frame.drawn
     /\ regional_vis_frame.comparison_type = "Cases per 100,000 Population") =>
        \A j \in DOMAIN population_data :
            \E k \in DOMAIN regional_vis_frame.chart :
                /\ regional_vis_frame.chart[k].region = population_data[j].region
                /\ (\A i \in DOMAIN regional_vis_frame.filtered_data :
                        regional_vis_frame.filtered_data[i].region # population_data[j].region)
                    => regional_vis_frame.chart[k].cases_per_100k = Rat(0, 1)

\* ---- C10 ----
\* A float that is a numeric rate: a number or an infinite value.
IsNumericRate(x) == IsNumber(x) \/ x = Inf

\* C10: a prevalence computed for a region whose population is zero is never
\* a numeric rate (neither 0 nor an infinite value), on the prevalence map and
\* in the high-risk analysis.
C10_ZeroPopulationNoRate ==
    /\ (population_map_frame.drawn
            /\ population_map_frame.display_type = "HIV Prevalence Rate") =>
          \A i \in DOMAIN population_data :
              population_data[i].population = 0 =>
                  ~IsNumericRate(population_map_frame.annotated[i].value)
    /\ risk_window.drawn =>
          \A k \in DOMAIN risk_window.sorted_data :
              risk_window.sorted_data[k].population = 0 =>
                  ~IsNumericRate(risk_window.sorted_data[k].prevalence)

\* ---- C11 ----
\* The rows of the per-100,000 chart over the whole two-region table
ScenarioRates ==
    {<<regional_vis_frame.chart[k].region, regional_vis_frame.chart[k].cases_per_100k>> :
        k \in DOMAIN regional_vis_frame.chart}

ScenarioRatesCharted ==
    /\ regional_vis_frame.drawn
    /\ regional_vis_frame.comparison_type = "Cases per 100,000 Population"
    /\ regional_vis_frame.filtered_data = hiv_data

\* C11: for populations {Erongo: 100000, Hardap: 50000} and 50 cases in each,
\* the rates per 100,000 are {Erongo: 50, Hardap: 100}; the prevalences are
\* 0.0005 and 0.001, so the high-risk set at threshold 0.001 is {Hardap} and
\* the high-risk set at threshold 0.00101 is empty.
C11_ScenarioRatesAndRisk ==
    /\ ScenarioRatesCharted =>
          ScenarioRates = {<<"Erongo", Rat(50, 1)>>, <<"Hardap", Rat(100, 1)>>}
    /\ (risk_window.drawn /\ risk_window.threshold = Rat(1, 1000)) =>
          risk_window.high_risk = {"Hardap"}
    /\ (risk_window.drawn /\ risk_window.threshold = Rat(101, 100000)) =>
          risk_window.high_risk = {}

\* C11 as stated: the same rates, with the high-risk set {Erongo, Hardap} at
\* threshold 0.001 and {Hardap} at threshold 0.00101.
C11_AsStated ==
    /\ ScenarioRatesCharted =>
          ScenarioRates = {<<"Erongo", Rat(50, 1)>>, <<"Hardap", Rat(100, 1)>>}
    /\ (risk_window.drawn /\ risk_window.threshold = Rat(1, 1000)) =>
          risk_window.high_risk = {"Erongo", "Hardap"}
    /\ (risk_window.drawn /\ risk_window.threshold = Rat(101, 100000)) =>
          risk_window.high_risk = {"Hardap"}

\* the rates are charted and the regions are classified at 0.00101
C11_Witness ==
    /\ ScenarioRatesCharted
    /\ risk_window.drawn
    /\ risk_window.threshold = Rat(101, 100000)

\* ---- C12 ----
\* the number of cases of a region in the Record Store
CasesOf(region) == Cardinality({i \in DOMAIN hiv_data : hiv_data[i].region = region})

\* cases / population >= threshold, for a positive population, in integers
RateReaches(cases, pop, threshold) == cases * threshold.den >= threshold.num * pop

\* C12: high-risk classification is an inclusive threshold predicate: a region
\* is in the high-risk set iff its prevalence is >= the threshold, so a region
\* whose prevalence equals the threshold is included.
C12_InclusiveThreshold ==
    risk_window.drawn =>
        \A j \in DOMAIN population_data :
            population_data[j].region \in risk_window.high_risk
                <=> RateReaches(CasesOf(population_data[j].region),
                                population_data[j].population, risk_window.threshold)

\* a region whose prevalence equals the threshold has been classified
C12_Witness ==
    /\ risk_window.drawn
    /\ \E k \in DOMAIN risk_window.sorted_data :
          /\ risk_window.sorted_data[k].prevalence = risk_window.threshold
          /\ risk_window.sorted_data[k].region \in risk_window.high_risk

\* ---- C13 ----
\* 0 < t <= 1
InUnitRange(t) == t.num > 0 /\ t.num <= t.den

C14_InsufficientDataRejected ==
    /\ corr_result_var.calculated => corr_result_var.correlation.n >= 2
    /\ corr_window.drawn => Len(corr_window.scatter) >= 2

\* ---- C15 ----
\* the regions with both a case count and a profile
PairedRegions ==
    {r \in Range(regions) :
        /\ CasesOf(r) > 0
        /\ \E j \in DOMAIN population_data : population_data[j].region = r}

\* the observation of a paired region: (density, cases / population)
ObservationOf(r) ==
    [x |-> ProfileOf(population_data, r).density,
     y |-> TrueDiv(CasesOf(r), ProfileOf(population_data, r).population)]

\* C15: Pearson's r and the least-squares line are computed over the same
\* paired observations: exactly the regions that have both a case count and a
\* profile, one observation each, and n is the number of those regions.
C15_SamePairedObservations ==
    corr_window.drawn =>
        /\ {corr_window.scatter[i].region : i \in DOMAIN corr_window.scatter} = PairedRegions
        /\ Len(corr_window.scatter) = Cardinality(PairedRegions)
        /\ corr_result_var.correlation.n = Cardinality(PairedRegions)
        /\ \A i \in DOMAIN corr_window.scatter :
              corr_result_var.correlation.observations[i]
                  = ObservationOf(corr_window.scatter[i].region)
        /\ corr_window.canvas =>
              /\ corr_window.trend_line.n = Cardinality(PairedRegions)
              /\ corr_window.trend_line.observations
                    = corr_result_var.correlation.observations

\* two regions are paired, one region with cases has no profile and one
\* profiled region has no case
C15_Witness ==
    /\ corr_window.drawn
    /\ corr_window.canvas
    /\ corr_window.trend_line.n = 2
    /\ \E r \in Range(regions) : CasesOf(r) > 0 /\ r \notin PairedRegions
    /\ \E j \in DOMAIN population_data : CasesOf(population_data[j].region) = 0

\* ---- C16 ----
\* the chart of the temporal tab is a resampled series / a cross table
SeriesCharted == temporal_vis_frame.drawn /\ temporal_vis_frame.chart.kind = "series"
TableCharted == temporal_vis_frame.drawn /\ temporal_vis_frame.chart.kind = "table"

ChartFreq == FreqOf(temporal_vis_frame.time_granularity)

\* the first day of a calendar bucket, at midnight: the 1st of the month, of
\* January / April / July / October, or of January
BucketStart(b, freq) ==
    IF freq = "Y" THEN datetime(b, 1, 1)
    ELSE IF freq = "Q" THEN datetime(b \div 4, 3 * (b % 4) + 1, 1)
    ELSE datetime(b \div 12, (b % 12) + 1, 1)

\* the period labels of the chart
ChartPeriods ==
    IF temporal_vis_frame.chart.kind = "series"
    THEN Column(temporal_vis_frame.chart.series, "period")
    ELSE temporal_vis_frame.chart.table.index

\* C16: resampling assigns every record to the calendar bucket containing its
\* diagnosis date, and each bucket is identified by its calendar start (the 1st
\* of the month, of the quarter or of the year).
C16_BucketsNamedByStart ==
    temporal_vis_frame.drawn =>
        /\ \A i \in DOMAIN temporal_vis_frame.filtered_data :
              \E k \in DOMAIN ChartPeriods :
                  Bucket(ChartPeriods[k], ChartFreq)
                      = Bucket(temporal_vis_frame.filtered_data[i].diagnosis_date, ChartFreq)
        /\ \A k \in DOMAIN ChartPeriods :
              ChartPeriods[k] = BucketStart(Bucket(ChartPeriods[k], ChartFreq), ChartFreq)

\* ---- C17 ----
\* the calendar buckets of the rows the chart is drawn from
ChartBuckets ==
    {Bucket(temporal_vis_frame.filtered_data[i].diagnosis_date, ChartFreq) :
        i \in DOMAIN temporal_vis_frame.filtered_data}

FirstBucket == CHOOSE b \in ChartBuckets : \A c \in ChartBuckets : b <= c
LastBucket == CHOOSE b \in ChartBuckets : \A c \in ChartBuckets : c <= b

\* C17: for a non-empty record set the resampled series has exactly one entry
\* for every calendar bucket from the bucket of the earliest record to the
\* bucket of the latest, in ascending order; each entry holds the number of
\* records of its bucket (0 for a bucket with none) and the entries sum to the
\* number of records.
C17_ZeroFilledRange ==
    SeriesCharted =>
        /\ Len(temporal_vis_frame.chart.series) = LastBucket - FirstBucket + 1
        /\ \A k \in DOMAIN temporal_vis_frame.chart.series :
              /\ Bucket(temporal_vis_frame.chart.series[k].period, ChartFreq)
                    = FirstBucket + k - 1
              /\ temporal_vis_frame.chart.series[k].count
                    = Cardinality({i \in DOMAIN temporal_vis_frame.filtered_data :
                         Bucket(temporal_vis_frame.filtered_data[i].diagnosis_date, ChartFreq)
                            = FirstBucket + k - 1})
        /\ SumSeq(Column(temporal_vis_frame.chart.series, "count"))
              = Len(temporal_vis_frame.filtered_data)

\* records on 2020-01-15 and 2020-03-10 at Month granularity: 3 buckets, the
\* one of February holding 0
C17_Witness ==
    /\ SeriesCharted
    /\ temporal_vis_frame.time_granularity = "Monthly"
    /\ Len(temporal_vis_frame.filtered_data) = 2
    /\ temporal_vis_frame.filtered_data[1].diagnosis_date = datetime(2020, 1, 15)
    /\ temporal_vis_frame.filtered_data[2].diagnosis_date = datetime(2020, 3, 10)
    /\ Column(temporal_vis_frame.chart.series, "count") = <<1, 0, 1>>

\* ---- C18 ----
\* C18: in a cross-tabulated resampling every value of the second dimension
\* has a series over the same global bucket range (earliest to latest bucket of
\* the filtered set), and a (bucket, value) cell with no record holds 0.
C18_CrossTableZeroFilled ==
    TableCharted =>
        /\ Len(temporal_vis_frame.chart.table.index) = LastBucket - FirstBucket + 1
        /\ \A k \in DOMAIN temporal_vis_frame.chart.table.index :
              /\ Bucket(temporal_vis_frame.chart.table.index[k], ChartFreq)
                    = FirstBucket + k - 1
              /\ \A c \in DOMAIN temporal_vis_frame.chart.table.columns :
                    IsNumber(temporal_vis_frame.chart.table.cells[k][c])

\* ---- C19 ----
\* a side of the policy date without any row has an empty monthly series and
\* the statistics of no data
EmptySideEmptySeries(window) ==
    /\ window.pre_policy = <<>> =>
          /\ window.pre_monthly = <<>>
          /\ window.pre_mean = Rat(0, 1) /\ window.pre_variance = Rat(0, 1)
          /\ window.change = [kind |-> "none"]
    /\ window.post_policy = <<>> =>
          /\ window.post_monthly = <<>>
          /\ window.post_mean = Rat(0, 1) /\ window.post_variance = Rat(0, 1)

\* C19: resampling an empty input yields an empty series and is not an
\* error: the assessment of a policy date with no row on one side (or on both)
\* still draws its window, and the only messagebox it raises is the one for a
\* policy date that does not parse.
C19_EmptyInputNoError ==
    [][/\ messagebox' # messagebox => strptime_raises(policy_date_var)
       /\ (impact_window' # impact_window) =>
             /\ ~strptime_raises(policy_date_var)
             /\ impact_window'.drawn
             /\ EmptySideEmptySeries(impact_window')]_vars

\* an assessment has been drawn with no row on or after the policy date
C19_Witness ==
    /\ impact_window.drawn
    /\ impact_window.pre_policy # <<>>
    /\ impact_window.post_policy = <<>>
    /\ impact_window.post_monthly = <<>>

\* ---- C20 ----
\* the rows of the region the assessment was drawn for
ImpactRegionRows ==
    IF impact_window.region # "All"
    THEN SelectSeq(hiv_data, LAMBDA r : r.region = impact_window.region)
    ELSE hiv_data

\* C20: the assessment partitions the rows of the region by the policy date:
\* every row is on exactly one side, before iff its diagnosis date is < the
\* policy date and after iff it is >= the policy date (a row dated at the
\* policy date is after).
C20_CutoffPartition ==
    impact_window.drawn =>
        /\ \A i \in DOMAIN impact_window.pre_policy :
              impact_window.pre_policy[i].diagnosis_date < impact_window.policy_date
        /\ \A i \in DOMAIN impact_window.post_policy :
              impact_window.post_policy[i].diagnosis_date >= impact_window.policy_date
        /\ \A r \in Range(ImpactRegionRows) \cup Range(impact_window.pre_policy)
                        \cup Range(impact_window.post_policy) :
              CountOf(impact_window.pre_policy, r) + CountOf(impact_window.post_policy, r)
                  = CountOf(ImpactRegionRows, r)

\* a row dated at the policy date has been put on the after side, with a row
\* on the before side
C20_Witness ==
    /\ impact_window.drawn
    /\ impact_window.pre_policy # <<>>
    /\ \E i \in DOMAIN impact_window.post_policy :
          impact_window.post_policy[i].diagnosis_date = impact_window.policy_date

\* ---- C21 ----
\* the month buckets of the entries of a monthly series
MonthsOf(series) == {Bucket(series[k].period, "M") : k \in DOMAIN series}

\* C21: the pre and post monthly series of an assessment cover disjoint
\* bucket ranges: no month bucket appears in both.
C21_DisjointMonths ==
    impact_window.drawn =>
        MonthsOf(impact_window.pre_monthly) \cap MonthsOf(impact_window.post_monthly) = {}

\* ---- C22 ----
\* the variance of a sequence of ints with the squared deviations divided by
\* n: (n * sum of squares - square of the sum) / n^2
PopulationVariance(xs) ==
    Rat(Len(xs) * SumSeq([i \in DOMAIN xs |-> xs[i] * xs[i]]) - SumSeq(xs) * SumSeq(xs),
        Len(xs) * Len(xs))

\* C22: the pre and post standard deviations of an assessment are population
\* standard deviations over the monthly bucket values of each side, zero
\* buckets included; a side with exactly one bucket has standard deviation 0.
C22_PopulationStd ==
    impact_window.drawn =>
        /\ impact_window.pre_monthly # <<>> =>
              impact_window.pre_variance
                  = PopulationVariance(Column(impact_window.pre_monthly, "count"))
        /\ impact_window.post_monthly # <<>> =>
              impact_window.post_variance
                  = PopulationVariance(Column(impact_window.post_monthly, "count"))

\* ---- C23 ----
\* C23: the percent change of an assessment is produced iff pre_mean > 0, and
\* is then (post_mean - pre_mean) / pre_mean * 100; with no pre-policy row
\* pre_mean is 0 and no change is produced (nothing is divided); with
\* pre-policy rows and no post-policy row post_mean is 0 and the change is -100.
C23_PercentChangeGuarded ==
    impact_window.drawn =>
        /\ impact_window.pre_policy # <<>> =>
              impact_window.pre_mean
                  = Rat(Len(impact_window.pre_policy), Len(impact_window.pre_monthly))
        /\ impact_window.pre_policy = <<>> => impact_window.pre_mean = Rat(0, 1)
        /\ impact_window.change.kind = "percent" <=> impact_window.pre_mean.num > 0
        /\ impact_window.pre_mean.num <= 0 => impact_window.change = [kind |-> "none"]
        /\ impact_window.change.kind = "percent" =>
              /\ IsNumber(impact_window.change.value)
              /\ impact_window.change.value.num
                    * (impact_window.post_mean.den * impact_window.pre_mean.num)
                 = impact_window.change.value.den * 100
                    * (impact_window.post_mean.num * impact_window.pre_mean.den
                          - impact_window.pre_mean.num * impact_window.post_mean.den)
        /\ (impact_window.pre_policy # <<>> /\ impact_window.post_policy = <<>>) =>
              /\ impact_window.post_mean = Rat(0, 1)
              /\ impact_window.change = [kind |-> "percent", value |-> Rat(-100, 1)]

\* an assessment with rows before the policy date and none after it
C23_Witness ==
    /\ impact_window.drawn
    /\ impact_window.pre_policy # <<>>
    /\ impact_window.post_policy = <<>>
    /\ impact_window.change.kind = "percent"


\* C24: the Record Store (case records, region profiles, facility records)
\* is never modified after it was loaded: after any sequence of filter
\* selections, map updates, searches, picks, map clicks and exports on the
\* facilities tab its three tables are the tables load_dummy_data produced.
C24_StoreAsLoaded ==
    /\ hiv_data = SampleCases
    /\ population_data = PopulationData(population)
    /\ health_facilities = SampleFacilities

\* a facility was searched, picked and shown, and the filtered set exported
C24_Witness ==
    /\ facility_details_text.kind = "details"
    /\ facilities_map_frame.drawn
    /\ facilities_region_var \notin FacilityRegionChoices
    /\ export_file.written
    /\ export_file.data_type = "facilities"


\* C25: no analytical or search operation changes the selections a later
\* request will use: a step that opens, uses or closes a search results
\* window leaves the region, facility type and service selections of the
\* facilities tab as they were, and the map drawn is the filter of the
\* Record Store by the selections it was requested with.
C25_SearchKeepsSelections ==
    [][ /\ results_windows' # results_windows => facilities_sel' = facilities_sel
        /\ facilities_map_frame'.drawn =>
              facilities_map_frame'.filtered_facilities =
                  FacilityFilter(health_facilities, facilities_map_frame'.region,
                                 facilities_map_frame'.facility_type,
                                 facilities_map_frame'.selected_services) ]_vars


\* The filtered record set of a tab for the selections held in the next state,
\* evaluated at the clock reading of the step
FilteredSetOfTab(data_type) ==
    IF data_type = "hiv"
    THEN HivFilter(hiv_data, time_frame_var', age_group_var', gender_var',
                   diagnosis_var', clock')
    ELSE IF data_type = "regional"
    THEN RegionalFilter(hiv_data, regional_analysis_var', regional_time_var', clock')
    ELSE IF data_type = "facilities"
    THEN FacilityFilter(health_facilities, facilities_region_var', facility_type_var',
                        SelectedServices(services_vars'))
    ELSE DateRangeFilter(hiv_data, temporal_region_var',
                         strptime(start_date_var'), strptime(end_date_var'))

C27_PickedFacilityOnMap ==
    [][ Len(results_windows') < Len(results_windows) =>
            \E i \in DOMAIN facilities_map_frame'.filtered_facilities :
                /\ facilities_map_frame'.filtered_facilities[i].name =
                       facility_details_text'.name
                /\ facilities_map_frame'.filtered_facilities[i].region =
                       facility_details_text'.region ]_vars


\* C28: update_trend_statistics never divides by zero: whenever the panel
\* shows a percentage change between the last two periods of the charted
\* series, the count of the previous period is not zero and the change is
\* a number.
C28_ChangeNeverDividesByZero ==
    (trend_stats_text.kind = "statistics" /\ trend_stats_text.change.kind = "percent")
        => IsNumber(trend_stats_text.change.value)


\* The step drew a chart that differs from the one shown before
ChartRedrawn ==
    \/ ~temporal_vis_frame.drawn
    \/ temporal_vis_frame'.filtered_data # temporal_vis_frame.filtered_data
    \/ temporal_vis_frame'.trend_type # temporal_vis_frame.trend_type
    \/ temporal_vis_frame'.time_granularity # temporal_vis_frame.time_granularity

\* C29: after every update_temporal_trends that produces a chart the trend
\* statistics panel describes the series charted: for every trend type the
\* panel is filled by that request, from the filtered set and granularity of
\* that request, and never keeps the text of an earlier request.
C29_StatisticsOfChartedSeries ==
    [][ (temporal_vis_frame'.drawn /\ ChartRedrawn) =>
            trend_stats_text' =
                update_trend_statistics(
                    resample_size(temporal_vis_frame'.filtered_data,
                                  FreqOf(temporal_vis_frame'.time_granularity)),
                    "cases") ]_vars


\* C30: the high-risk set and the correlation inputs do not depend on any
\* filter selection: whatever the case, regional, facility and temporal
\* filters are set to, the high-risk regions shown are the paired regions of
\* the Record Store whose prevalence reaches the threshold of the request,
\* and the correlation is drawn over the observations of all paired regions.
C30_AnalysesIgnoreFilters ==
    /\ risk_window.drawn =>
          risk_window.high_risk =
              {r \in PairedRegions :
                  FloatGe(ObservationOf(r).y, risk_window.threshold)}
    /\ corr_window.drawn =>
          {[region |-> corr_window.scatter[i].region,
            x |-> corr_window.scatter[i].density,
            y |-> corr_window.scatter[i].prevalence] : i \in DOMAIN corr_window.scatter}
          = {[region |-> r, x |-> ObservationOf(r).x, y |-> ObservationOf(r).y] :
                r \in PairedRegions}

\* both analyses were run while every tab had a filter set that leaves
\* rows out, and a region was classified high-risk
C30_Witness ==
    /\ risk_window.drawn /\ risk_window.high_risk # {}
    /\ corr_window.drawn
    /\ gender_var = "Male"
    /\ regional_analysis_var = "Erongo"
    /\ facility_type_var = "Hospital"
    /\ temporal_region_var = "Erongo"

====
